---- MODULE Spec2Model ----
(***************************************************************************)
(* Model of the parallel test runner of the fasttest package:              *)
(* Runner.Start / AddTest / Run, the four worker goroutines of Run, the    *)
(* goroutine that closes the result channel, Runner.runTest with its step  *)
(* loop, and the console listener registered by runTest.                   *)
(*                                                                         *)
(* The worker goroutines are anonymous closures that differ in nothing but *)
(* the test they hold, so a worker is represented by its position: `idle`  *)
(* counts the workers blocked on the receive from testChan, and a worker   *)
(* that holds test t is at pc[t] inside runTest(t).                        *)
(*                                                                         *)
(* Two parts of runTest are followed in more detail on variables of their  *)
(* own: the step loop of one test under the deadline of its context, with  *)
(* the polling loop of wait_for_url (SpecDeadline), and the screenshot and *)
(* snapshot steps of tests that share the baseline files and the counters  *)
(* of the Runner (SpecBaselines, SpecNaming).                              *)
(***************************************************************************)
EXTENDS Integers, Sequences, FiniteSets, TLC

\* ---------------------------------------------------------------- bounds
MaxTests == 2
MaxSteps == 2
MaxEvents == 1
MaxClock == 1
MaxPoolTests == 5
MaxTimeout == 3
MaxStepTime == 2
MaxWidth == 2
MaxHeight == 1
MaxHtmlLen == 2
MaxNameLen == 2
MaxShots == 2
MaxShotSteps == 1
MaxNormLen == 4
MaxBaselineLen == 3
MaxProgressTests == 4
MaxActionSteps == 2
MaxTargetLen == 3
MaxLines == 4
MaxBandHeight == 6

\* ------------------------------------------------------ program constants
numWorkers == 4
sampleStep == 10
compareWorkers == 4

Names == <<"a", "b">>

\* Console events the browser can emit: runtime.EventConsoleAPICalled with a
\* Type and a first argument.
ConsoleEvents ==
    { [Type |-> "error", Message |-> "e1"],
      [Type |-> "error", Message |-> "e2"],
      [Type |-> "log", Message |-> "e1"] }

\* Config.ErrorFilter: nil ("nil"), or a predicate over ConsoleError
\* ("all", "e1").
ErrorFilter(f, consoleErr) ==
    CASE f = "all" -> TRUE
      [] f = "e1" -> consoleErr.Message = "e1"
      [] OTHER -> FALSE

\* error values: nil, or an error with a kind and a number
Err(kind, n) == [kind |-> kind, n |-> n]
Nil == Err("nil", 0)

Test(name, n) ==
    [Name |-> name,
     Steps |-> [i \in 1..n |->
                   [Action |-> "click", Target |-> "#x", Value |-> ""]]]

\* the tests a caller may add: one per number of steps, names repeating
Tests == { Test(Names[(n % 2) + 1], n) : n \in 0..MaxSteps }

\* the k-th test of the loaded worker pool: no steps, names alternating
PoolTest(k) == Test(Names[(k % 2) + 1], 0)

\* TestResult{Name, Passed: true, Errors: []ConsoleError{}} (idx: which
\* element of r.tests the result belongs to)
NewResult(t, name) ==
    [idx |-> t, Name |-> name, Passed |-> TRUE, Error |-> Nil,
     Duration |-> 0, Errors |-> <<>>]

NoResult == NewResult(0, "")

\* ------------------------------------------- screenshots and snapshots
\* Strings are sequences of one-character strings.
RECURSIVE ReplaceAll(_, _, _)
\* strings.ReplaceAll(s, old, new), old non-empty: the non-overlapping
\* occurrences of old are replaced from left to right
ReplaceAll(s, old, new) ==
    IF Len(s) < Len(old) THEN s
    ELSE IF SubSeq(s, 1, Len(old)) = old
         THEN new \o ReplaceAll(SubSeq(s, Len(old) + 1, Len(s)), old, new)
         ELSE <<Head(s)>> \o ReplaceAll(Tail(s), old, new)

\* strings.Contains(s, sub)
Contains(s, sub) ==
    \E i \in 1..(Len(s) - Len(sub) + 1) :
        SubSeq(s, i, i + Len(sub) - 1) = sub

\* strings.TrimSuffix(s, suffix)
TrimSuffix(s, suffix) ==
    IF Len(s) >= Len(suffix)
       /\ SubSeq(s, Len(s) - Len(suffix) + 1, Len(s)) = suffix
    THEN SubSeq(s, 1, Len(s) - Len(suffix))
    ELSE s

WhiteSpace == {" ", "\n", "\r", "\t"}

RECURSIVE TrimLeft(_)
TrimLeft(s) ==
    IF s # <<>> /\ Head(s) \in WhiteSpace THEN TrimLeft(Tail(s)) ELSE s

RECURSIVE TrimRight(_)
TrimRight(s) ==
    IF s # <<>> /\ s[Len(s)] \in WhiteSpace
    THEN TrimRight(SubSeq(s, 1, Len(s) - 1))
    ELSE s

\* strings.TrimSpace(s)
TrimSpace(s) == TrimRight(TrimLeft(s))

Digits == <<"0", "1", "2", "3", "4", "5", "6", "7", "8", "9">>

RECURSIVE Itoa(_)
\* the verb %d of fmt.Sprintf, for n >= 0
Itoa(n) ==
    IF n < 10 THEN <<Digits[n + 1]>>
    ELSE Itoa(n \div 10) \o <<Digits[(n % 10) + 1]>>

\* filepath.Join(dir, filename), for a filename without separators
Join(dir, filename) == dir \o <<"/">> \o filename

PngExt == <<".", "p", "n", "g">>
HtmlExt == <<".", "h", "t", "m", "l">>

\* safeTestName: spaces, slashes and backslashes become underscores
SafeTestName(testName) ==
    ReplaceAll(ReplaceAll(ReplaceAll(testName, <<" ">>, <<"_">>),
                          <<"/">>, <<"_">>),
               <<"\\">>, <<"_">>)

\* faulty variant,the first file of a test is numbered too
AutoName_NumberFirst(testName, counter, ext) ==
    SafeTestName(testName) \o <<"_">> \o Itoa(counter) \o ext

\* fmt.Sprintf("%s.png", safeTestName) for the first file of a test name,
\* fmt.Sprintf("%s_%d.png", safeTestName, counter) for the later ones
AutoName(testName, counter, ext) ==
    IF counter = 1
    THEN SafeTestName(testName) \o ext
    ELSE SafeTestName(testName) \o <<"_">> \o Itoa(counter) \o ext

\* r.screenshotCounter[testName], zero for a name not in the map
Count(counters, testName) ==
    IF testName \in DOMAIN counters THEN counters[testName] ELSE 0

\* faulty variant,the incremented value is not stored back
Increment_NoStore(counters, testName) == counters

\* r.screenshotCounter[testName]++
Increment(counters, testName) ==
    [n \in DOMAIN counters \cup {testName} |->
        IF n = testName THEN Count(counters, testName) + 1 ELSE counters[n]]

\* A file holds PNG data or an HTML text. PNG data is the encoding `enc`
\* of an image of w x h pixels, px being its rows one after the other;
\* a pixel is an RGBA colour, here 0 or 1.
Png(enc, w, h, px) ==
    [type |-> "png", enc |-> enc, w |-> w, h |-> h, px |-> px]

Html(text) == [type |-> "html", text |-> text]

\* the screenshots chromedp.FullScreenshot can deliver
Images ==
    UNION { { Png(0, w, h, px) : px \in [1..(w * h) -> {0, 1}] } :
            w \in 1..MaxWidth, h \in 1..MaxHeight }

\* png.Decode: the image of PNG data, an error for other data
DecodeError == Err("png: invalid format", 0)

Decode(data) == [w |-> data.w, h |-> data.h, px |-> data.px]

\* img.At(x, y), bounds.Min being (0, 0)
At(img, x, y) == img.px[y * img.w + x + 1]

\* colorsEqual(c1, c2): all four channels are equal
colorsEqual(c1, c2) == c1 = c2

\* the results of compareImages: float64 fractions as <<numerator,
\* denominator>>, a nil byte slice as NoImage
Fraction(n, d) == <<n, d>>

NoImage == [type |-> "nil"]

\* the places of an image of w x h pixels where baseline and current differ
Mismatches(b, c) ==
    { p \in (0..(b.w - 1)) \X (0..(b.h - 1)) :
        ~colorsEqual(At(b, p[1], p[2]), At(c, p[1], p[2])) }

\* the sampling pass: needsDiff is set when a pixel at a multiple of
\* sampleStep in both axes differs
NeedsDiff(b, c) ==
    \E p \in Mismatches(b, c) :
        p[1] % sampleStep = 0 /\ p[2] % sampleStep = 0

\* the rows [startY, endY) of the w-th goroutine of the full pass
StartY(w, dy) == w * (dy \div compareWorkers)

\* faulty variant,the last band does not take the rows that are left over
EndY_NoRemainder(w, dy) == StartY(w, dy) + (dy \div compareWorkers)

EndY(w, dy) ==
    IF w = compareWorkers - 1 THEN dy
    ELSE StartY(w, dy) + (dy \div compareWorkers)

\* localDiff of the w-th goroutine
LocalDiff(w, b, c) ==
    Cardinality({ p \in Mismatches(b, c) :
                    StartY(w, b.h) <= p[2] /\ p[2] < EndY(w, b.h) })

RECURSIVE SumLocalDiff(_, _, _)
\* differentPixels after the goroutines 0..w have added their localDiff
SumLocalDiff(w, b, c) ==
    IF w < 0 THEN 0 ELSE SumLocalDiff(w - 1, b, c) + LocalDiff(w, b, c)

\* the pixel the full pass sets in diffImg: red where the images differ,
\* the gray value of the baseline elsewhere; a pixel outside every band
\* stays as image.NewRGBA made it
DiffPixel(b, c, x, y) ==
    IF \A w \in 0..(compareWorkers - 1) :
           ~(StartY(w, b.h) <= y /\ y < EndY(w, b.h))
    THEN "unset"
    ELSE IF ~colorsEqual(At(b, x, y), At(c, x, y)) THEN "red"
    ELSE IF At(b, x, y) = 0 THEN "gray0" ELSE "gray1"

DiffImage(b, c) ==
    Png(0, b.w, b.h,
        [i \in 1..(b.w * b.h) |->
            DiffPixel(b, c, (i - 1) % b.w, (i - 1) \div b.w)])

\* faulty variant,images of different sizes count as equal
compareImages_SizeIgnored(baseline, current) ==
    IF baseline.type # "png" \/ current.type # "png"
    THEN [diff |-> Fraction(0, 1), diffImage |-> NoImage, err |-> DecodeError]
    ELSE IF baseline = current
    THEN [diff |-> Fraction(0, 1), diffImage |-> NoImage, err |-> Nil]
    ELSE LET b == Decode(baseline)
             c == Decode(current)
         IN  IF b.w # c.w \/ b.h # c.h
             THEN [diff |-> Fraction(0, 1), diffImage |-> NoImage,
                   err |-> Nil]
             ELSE IF ~NeedsDiff(b, c)
             THEN [diff |-> Fraction(0, 1), diffImage |-> NoImage,
                   err |-> Nil]
             ELSE [diff |-> Fraction(SumLocalDiff(compareWorkers - 1, b, c),
                                     b.w * b.h),
                   diffImage |-> DiffImage(b, c), err |-> Nil]

\* Runner.compareImages(baseline, current)
compareImages(baseline, current) ==
    IF baseline.type # "png" \/ current.type # "png"
    THEN [diff |-> Fraction(0, 1), diffImage |-> NoImage, err |-> DecodeError]
    ELSE IF baseline = current
    THEN [diff |-> Fraction(0, 1), diffImage |-> NoImage, err |-> Nil]
    ELSE LET b == Decode(baseline)
             c == Decode(current)
         IN  IF b.w # c.w \/ b.h # c.h
             THEN [diff |-> Fraction(1, 1), diffImage |-> NoImage,
                   err |-> Nil]
             ELSE IF ~NeedsDiff(b, c)
             THEN [diff |-> Fraction(0, 1), diffImage |-> NoImage,
                   err |-> Nil]
             ELSE [diff |-> Fraction(SumLocalDiff(compareWorkers - 1, b, c),
                                     b.w * b.h),
                   diffImage |-> DiffImage(b, c), err |-> Nil]

\* the places the sampling loops visit: x and y run over the multiples of
\* sampleStep, row by row
SamplePoints(b) ==
    { p \in (0..(b.w - 1)) \X (0..(b.h - 1)) :
        p[1] % sampleStep = 0 /\ p[2] % sampleStep = 0 }

\* p is visited before q by loops that go row by row
Before(p, q) == p[2] < q[2] \/ (p[2] = q[2] /\ p[1] < q[1])

\* the places the sampling pass reads with At: it breaks at the first
\* sampled place where the images differ
Sampled(b, c) ==
    { p \in SamplePoints(b) :
        \A q \in SamplePoints(b) \cap Mismatches(b, c) : ~Before(q, p) }

\* the places the goroutines of the full pass read with At
Banded(b) ==
    { p \in (0..(b.w - 1)) \X (0..(b.h - 1)) :
        \E w \in 0..(compareWorkers - 1) :
            StartY(w, b.h) <= p[2] /\ p[2] < EndY(w, b.h) }

\* the places of the images at which compareImages(baseline, current)
\* calls At
Scanned(baseline, current) ==
    IF baseline.type # "png" \/ current.type # "png" THEN {}
    ELSE IF baseline = current THEN {}
    ELSE LET b == Decode(baseline)
             c == Decode(current)
         IN  IF b.w # c.w \/ b.h # c.h THEN {}
             ELSE IF ~NeedsDiff(b, c) THEN Sampled(b, c)
             ELSE Sampled(b, c) \cup Banded(b)

\* faulty variant,a difference equal to the threshold counts as too large
Exceeds_Inclusive(diff, threshold) ==
    diff[1] * threshold[2] >= threshold[1] * diff[2]

\* diff > r.config.ScreenshotThreshold
Exceeds(diff, threshold) ==
    diff[1] * threshold[2] > threshold[1] * diff[2]

\* the HTML texts chromedp.Evaluate(outerHTML) can deliver
Htmls ==
    UNION { { Html(s) : s \in [1..n -> {"a", " ", "<"}] } :
            n \in 0..MaxHtmlLen }

\* the HTML texts of the snapshot comparisons: a letter, the white space
\* that normalizeHTML replaces, and the two tag boundaries
NormHtmls(len) ==
    UNION { { Html(s) : s \in [1..n -> {"a", " ", "\n", ">", "<"}] } :
            n \in 0..len }

RECURSIVE Collapse(_)
\* for strings.Contains(html, "  ") { html = ReplaceAll(html, "  ", " ") }
Collapse(s) ==
    IF Contains(s, <<" ", " ">>)
    THEN Collapse(ReplaceAll(s, <<" ", " ">>, <<" ">>))
    ELSE s

\* faulty variant,the spaces at tag boundaries are removed before the
\* runs of spaces are collapsed
normalizeHTML_TagsFirst(html) ==
    LET s1 == ReplaceAll(html, <<"\n">>, <<" ">>)
        s2 == ReplaceAll(s1, <<"\r">>, <<" ">>)
        s3 == ReplaceAll(s2, <<"\t">>, <<" ">>)
        s4 == ReplaceAll(s3, <<">", " ", "<">>, <<">", "<">>)
        s5 == ReplaceAll(s4, <<">", " ">>, <<">">>)
        s6 == ReplaceAll(s5, <<" ", "<">>, <<"<">>)
    IN  TrimSpace(Collapse(s6))

\* Runner.normalizeHTML(html)
normalizeHTML(html) ==
    LET s1 == ReplaceAll(html, <<"\n">>, <<" ">>)
        s2 == ReplaceAll(s1, <<"\r">>, <<" ">>)
        s3 == ReplaceAll(s2, <<"\t">>, <<" ">>)
        s4 == Collapse(s3)
        s5 == ReplaceAll(s4, <<">", " ", "<">>, <<">", "<">>)
        s6 == ReplaceAll(s5, <<">", " ">>, <<">">>)
        s7 == ReplaceAll(s6, <<" ", "<">>, <<"<">>)
    IN  TrimSpace(s7)

\* faulty variant,the texts are compared as they are
compareSnapshots_Raw(baseline, current) == baseline = current

\* Runner.compareSnapshots(baseline, current)
compareSnapshots(baseline, current) ==
    normalizeHTML(baseline) = normalizeHTML(current)

\* Runner.generateHTMLDiff(baseline, current): a page that shows the two
\* normalized texts
generateHTMLDiff(baseline, current) ==
    [type |-> "htmldiff", expected |-> normalizeHTML(baseline),
     actual |-> normalizeHTML(current)]

\* a directory without files, a counter map without entries
NoFiles == [p \in {} |-> NoImage]

VARIABLES
    config,            \* r.config: FailOnConsoleError, ErrorFilter
    allocCtx,          \* r.allocCtx # nil
    tests,             \* r.tests
    results,           \* r.results
    testChan,          \* buffered channel of tests (indices into r.tests)
    testChanClosed,
    resultChan,        \* buffered channel of TestResult
    resultChanClosed,
    wg,                \* sync.WaitGroup counter of Run
    pcMain,            \* position of the goroutine calling Run
    pcCloser,          \* position of the goroutine that closes resultChan
    sent,              \* number of tests already put on testChan
    idle,              \* number of workers blocked in `range testChan`
    pc,                \* per test: position of the worker running it
    stepIdx,           \* per test: index of the next step of the step loop
    start,             \* per test: runTest's start time
    result,            \* per test: runTest's local variable result
    now,               \* the monotonic clock
    executed,          \* per test: the executeStep calls made (step, error)
    delivered,         \* per test: the console events the listener received
    opened,            \* number of browser contexts created so far
    ctx,               \* per test: the browser context runTest created (0: none)
    sessions,          \* the browser contexts that are open
    timeout,           \* timed run: r.config.Timeout, in ticker periods
    deadline,          \* timed run: ctx.Deadline() of the test's context
    timedSteps,        \* timed run: the actions of test.Steps
    tpc,               \* timed run: position inside runTest / executeStep
    ti,                \* timed run: index of the step being executed
    ticker,            \* timed run: ticker.C holds a tick
    tlog,              \* timed run: the steps executed, with their times
    terr,              \* timed run: result.Error
    shotConfig,        \* r.config: UpdateScreenshots, UpdateSnapshots,
                       \* ScreenshotThreshold
    files,             \* the files of the two directories, by path
    screenshotCounter, \* r.screenshotCounter
    snapshotCounter,   \* r.snapshotCounter
    renders,           \* what the pages can look like when captured
    shotTests,         \* the tests with screenshot and snapshot steps
    spc,               \* per such test: position inside the step
    si,                \* per such test: index of the step under way
    shotLog,           \* per such test: its steps and what they did
    uiWg,              \* the caller's sync.WaitGroup given to RunWithProgress
    pcConsumer,        \* position of the caller's goroutine that reads
                       \* resultsChan
    received,          \* the results that goroutine has received
    handled,           \* how many of them it has handled (wg.Done)
    lines,             \* parser: the lines of the test file
    lineNum,           \* parser: number of lines read
    parsed,            \* parser: the local variable tests of parse
    currentTest,       \* parser: the test under way (<<>>: nil)
    parseErr,          \* parser: the error returned
    ppc,               \* parser: position inside parse
    cmpImages,         \* full pass of compareImages: baselineImg, currentImg
    bandsDone,         \* full pass: the goroutines that have added their
                       \* localDiff
    differentPixels,   \* full pass: differentPixels
    cpc                \* full pass: position of compareImages

vars == <<config, allocCtx, tests, results, testChan, testChanClosed,
          resultChan, resultChanClosed, wg, pcMain, pcCloser, sent, idle, pc,
          stepIdx, start, result, now, executed, delivered, opened, ctx,
          sessions, timeout, deadline, timedSteps, tpc, ti, ticker, tlog,
          terr, shotConfig, files, screenshotCounter, snapshotCounter,
          renders, shotTests, spc, si, shotLog, uiWg, pcConsumer, received,
          handled, lines, lineNum, parsed, currentTest, parseErr, ppc,
          cmpImages, bandsDone, differentPixels, cpc>>

mainVars == <<results, pcMain, sent>>
chanVars == <<testChan, testChanClosed, resultChan, resultChanClosed>>
workerVars == <<idle, pc, stepIdx, start, result>>
ghostVars == <<executed, delivered, opened>>
sessVars == <<ctx, sessions>>
stepVars == <<timeout, deadline, timedSteps, tpc, ti, ticker, tlog, terr>>
shotVars == <<shotConfig, files, screenshotCounter, snapshotCounter, renders,
              shotTests, spc, si, shotLog>>
progVars == <<uiWg, pcConsumer, received, handled>>
parseVars == <<lines, lineNum, parsed, currentTest, parseErr, ppc>>
bandVars == <<cmpImages, bandsDone, differentPixels, cpc>>
subVars == <<stepVars, shotVars, progVars, parseVars, bandVars>>

\* no screenshot or snapshot step is under way
InitShots ==
    /\ shotConfig = [UpdateScreenshots |-> FALSE, UpdateSnapshots |-> FALSE,
                     ScreenshotThreshold |-> Fraction(0, 1)]
    /\ files = NoFiles
    /\ screenshotCounter = NoFiles
    /\ snapshotCounter = NoFiles
    /\ renders = {}
    /\ shotTests = <<>>
    /\ spc = <<>>
    /\ si = <<>>
    /\ shotLog = <<>>

\* no timed run is under way
InitSteps ==
    /\ timeout = 0
    /\ deadline = 0
    /\ timedSteps = <<>>
    /\ tpc = "none"
    /\ ti = 0
    /\ ticker = FALSE
    /\ tlog = <<>>
    /\ terr = Nil

\* NewRunner(config): no test, no allocator yet
NewRunner ==
    /\ config \in [FailOnConsoleError : BOOLEAN, ErrorFilter : {"nil", "all", "e1"}]
    /\ tests = <<>>
    /\ results = <<>>
    /\ testChan = <<>>
    /\ testChanClosed = FALSE
    /\ resultChan = <<>>
    /\ resultChanClosed = FALSE
    /\ wg = 0
    /\ pcMain = "setup"
    /\ pcCloser = "none"
    /\ sent = 0
    /\ idle = 0
    /\ pc = <<>>
    /\ stepIdx = <<>>
    /\ start = <<>>
    /\ result = <<>>
    /\ now = 0
    /\ executed = <<>>
    /\ delivered = <<>>
    /\ opened = 0
    /\ ctx = <<>>
    /\ sessions = {}
    /\ uiWg = 0
    /\ pcConsumer = "none"
    /\ received = <<>>
    /\ handled = 0

\* no test file is being parsed
NoParse ==
    /\ lines = <<>>
    /\ lineNum = 0
    /\ parsed = <<>>
    /\ currentTest = <<>>
    /\ parseErr = Nil
    /\ ppc = "none"

\* compareImages is not under way
NoBands ==
    /\ cmpImages = <<>>
    /\ bandsDone = {}
    /\ differentPixels = 0
    /\ cpc = "none"

InitRunner == NewRunner /\ NoParse /\ NoBands

Init == InitRunner /\ allocCtx = FALSE /\ InitSteps /\ InitShots

\* Runner.Start
Start ==
    /\ pcMain = "setup"
    /\ ~allocCtx
    /\ allocCtx' = TRUE
    /\ UNCHANGED <<subVars, sessVars, config, tests, chanVars, wg, mainVars, pcCloser,
                   workerVars, now, ghostVars>>

\* Runner.AddTest, for at most `limit` tests
Add(test, limit) ==
    /\ pcMain = "setup"
    /\ Len(tests) < limit
    /\ tests' = Append(tests, test)
    /\ pc' = Append(pc, "none")
    /\ stepIdx' = Append(stepIdx, 0)
    /\ start' = Append(start, 0)
    /\ result' = Append(result, NoResult)
    /\ executed' = Append(executed, <<>>)
    /\ delivered' = Append(delivered, <<>>)
    /\ ctx' = Append(ctx, 0)
    /\ UNCHANGED <<subVars, sessions, config, allocCtx, chanVars, wg, mainVars, pcCloser, idle,
                   now, opened>>

AddTest(test) == Add(test, MaxTests)

AddPoolTest == Add(PoolTest(Len(tests) + 1), MaxPoolTests)

\* time passes
Tick ==
    /\ now < MaxClock
    /\ now' = now + 1
    /\ UNCHANGED <<subVars, sessVars, config, allocCtx, tests, chanVars, wg, mainVars, pcCloser,
                   workerVars, ghostVars>>

\* ------------------------------------------------------------ Runner.Run
\* make the channels, wg.Add(numWorkers), start the workers
RunBegin ==
    /\ pcMain = "setup"
    /\ pcMain' = "enqueue"
    /\ results' = <<>>
    /\ wg' = numWorkers
    /\ idle' = numWorkers
    /\ UNCHANGED <<subVars, sessVars, config, allocCtx, tests, chanVars, pcCloser, sent, pc,
                   stepIdx, start, result, now, ghostVars>>

\* for _, test := range r.tests { testChan <- test }
Enqueue ==
    /\ pcMain = "enqueue"
    /\ sent < Len(tests)
    /\ testChan' = Append(testChan, sent + 1)
    /\ sent' = sent + 1
    /\ UNCHANGED <<subVars, sessVars, config, allocCtx, tests, testChanClosed, resultChan,
                   resultChanClosed, wg, results, pcMain, pcCloser,
                   workerVars, now, ghostVars>>

\* close(testChan); go func() { wg.Wait(); close(resultChan) }()
CloseTestChan ==
    /\ pcMain = "enqueue"
    /\ sent = Len(tests)
    /\ testChanClosed' = TRUE
    /\ pcCloser' = "wait"
    /\ pcMain' = "collect"
    /\ UNCHANGED <<subVars, sessVars, config, allocCtx, tests, testChan, resultChan,
                   resultChanClosed, wg, results, sent, workerVars, now,
                   ghostVars>>

\* faulty variant,the result channel is closed without waiting for the workers
CloseResultChan_NoWait ==
    /\ pcCloser = "wait"
    /\ resultChanClosed' = TRUE
    /\ pcCloser' = "done"
    /\ UNCHANGED <<subVars, sessVars, config, allocCtx, tests, testChan, testChanClosed,
                   resultChan, wg, mainVars, workerVars, now, ghostVars>>

\* wg.Wait() returns; close(resultChan)
CloseResultChan ==
    /\ pcCloser = "wait"
    /\ wg = 0
    /\ resultChanClosed' = TRUE
    /\ pcCloser' = "done"
    /\ UNCHANGED <<subVars, sessVars, config, allocCtx, tests, testChan, testChanClosed,
                   resultChan, wg, mainVars, workerVars, now, ghostVars>>

\* for result := range resultChan { r.results = append(r.results, result) }
Collect ==
    /\ pcMain = "collect"
    /\ resultChan # <<>>
    /\ results' = Append(results, Head(resultChan))
    /\ resultChan' = Tail(resultChan)
    /\ UNCHANGED <<subVars, sessVars, config, allocCtx, tests, testChan, testChanClosed,
                   resultChanClosed, wg, pcMain, pcCloser, sent, workerVars,
                   now, ghostVars>>

\* the range over resultChan ends; return r.results
RunReturn ==
    /\ pcMain = "collect"
    /\ resultChan = <<>>
    /\ resultChanClosed
    /\ pcMain' = "done"
    /\ UNCHANGED <<subVars, sessVars, config, allocCtx, tests, chanVars, wg, results, pcCloser,
                   sent, workerVars, now, ghostVars>>

\* ------------------------------------------------------- worker goroutine
\* faulty variant,a worker takes the next test while it still runs one
WorkerRecv_Greedy ==
    /\ idle > 0
    /\ testChan # <<>>
    /\ idle' = idle
    /\ pc' = [pc EXCEPT ![Head(testChan)] = "runTest"]
    /\ testChan' = Tail(testChan)
    /\ UNCHANGED <<subVars, sessVars, config, allocCtx, tests, testChanClosed, resultChan,
                   resultChanClosed, wg, mainVars, pcCloser, stepIdx, start,
                   result, now, ghostVars>>

\* for test := range testChan: an idle worker receives the next test
WorkerRecv ==
    /\ idle > 0
    /\ testChan # <<>>
    /\ idle' = idle - 1
    /\ pc' = [pc EXCEPT ![Head(testChan)] = "runTest"]
    /\ testChan' = Tail(testChan)
    /\ UNCHANGED <<subVars, sessVars, config, allocCtx, tests, testChanClosed, resultChan,
                   resultChanClosed, wg, mainVars, pcCloser, stepIdx, start,
                   result, now, ghostVars>>

\* faulty variant,a worker leaves its loop without wg.Done()
WorkerExit_NoDone ==
    /\ idle > 0
    /\ testChan = <<>>
    /\ testChanClosed
    /\ idle' = idle - 1
    /\ UNCHANGED <<subVars, sessVars, config, allocCtx, tests, chanVars, wg, mainVars, pcCloser,
                   pc, stepIdx, start, result, now, ghostVars>>

\* for test := range testChan: the channel is closed and drained, the
\* worker leaves the loop; wg.Done()
WorkerExit ==
    /\ idle > 0
    /\ testChan = <<>>
    /\ testChanClosed
    /\ idle' = idle - 1
    /\ wg' = wg - 1
    /\ UNCHANGED <<subVars, sessVars, config, allocCtx, tests, chanVars, mainVars, pcCloser,
                   pc, stepIdx, start, result, now, ghostVars>>

\* faulty variant,the worker appends its result to r.results itself
SendResult_Direct(t) ==
    /\ pc[t] = "send"
    /\ results' = Append(results, result[t])
    /\ pc' = [pc EXCEPT ![t] = "done"]
    /\ stepIdx' = [stepIdx EXCEPT ![t] = 0]
    /\ start' = [start EXCEPT ![t] = 0]
    /\ result' = [result EXCEPT ![t] = NoResult]
    /\ idle' = idle + 1
    /\ UNCHANGED <<subVars, sessVars, config, allocCtx, tests, testChan, testChanClosed,
                   resultChan, resultChanClosed, wg, pcMain, sent, pcCloser,
                   now, ghostVars>>

\* resultChan <- result; the worker goes back to the receive
SendResult(t) ==
    /\ pc[t] = "send"
    /\ resultChan' = Append(resultChan, result[t])
    /\ pc' = [pc EXCEPT ![t] = "done"]
    /\ stepIdx' = [stepIdx EXCEPT ![t] = 0]
    /\ start' = [start EXCEPT ![t] = 0]
    /\ result' = [result EXCEPT ![t] = NoResult]
    /\ idle' = idle + 1
    /\ UNCHANGED <<subVars, sessVars, config, allocCtx, tests, testChan, testChanClosed,
                   resultChanClosed, wg, mainVars, pcCloser, now, ghostVars>>

\* --------------------------------------------------------- Runner.runTest
\* result.Passed = false; result.Error = err
Failed(res, err) == [res EXCEPT !.Passed = FALSE, !.Error = err]

\* the errors a protocol round trip of step i can return (nil: success)
StepErrors(i) == {Nil, Err("step", i)}

\* faulty variant,the loop has no break
AfterStep_NoBreak(i, n, err) == IF i < n THEN "steps" ELSE "verdict"

\* for _, step := range test.Steps: where the loop goes after step i
\* returned err
AfterStep(i, n, err) ==
    IF err # Nil THEN "verdict"
    ELSE IF i < n THEN "steps" ELSE "verdict"

\* if err := r.executeStep(...); err != nil { result.Passed = false;
\* result.Error = err; break }
StepResult(res, err) == IF err # Nil THEN Failed(res, err) ELSE res

\* faulty variant,the filter's answer is taken the wrong way round
Kept_Inverted(cfg, consoleErr) ==
    cfg.ErrorFilter = "nil" \/ ErrorFilter(cfg.ErrorFilter, consoleErr)

\* r.config.ErrorFilter == nil || !r.config.ErrorFilter(consoleErr)
Kept(cfg, consoleErr) ==
    cfg.ErrorFilter = "nil" \/ ~ErrorFilter(cfg.ErrorFilter, consoleErr)

\* the console listener: what result.Errors is after event ev
Listen(cfg, errors, ev) ==
    IF ev.Type = "error" /\ Kept(cfg, [Message |-> ev.Message, Type |-> ev.Type])
    THEN Append(errors, [Message |-> ev.Message, Type |-> ev.Type])
    ELSE errors

\* faulty variant,the console error replaces a step error
ConsoleVerdict_Overwrite(cfg, res) ==
    IF cfg.FailOnConsoleError /\ Len(res.Errors) > 0
    THEN [res EXCEPT !.Passed = FALSE,
                     !.Error = Err("console", Len(res.Errors))]
    ELSE res

\* if r.config.FailOnConsoleError && len(result.Errors) > 0 {
\*     result.Passed = false
\*     if result.Error == nil { result.Error = "console errors detected" } }
ConsoleVerdict(cfg, res) ==
    IF cfg.FailOnConsoleError /\ Len(res.Errors) > 0
    THEN [res EXCEPT !.Passed = FALSE,
                     !.Error = IF res.Error = Nil
                               THEN Err("console", Len(res.Errors))
                               ELSE res.Error]
    ELSE res

\* faulty variant,the operands are swapped
Since_Swapped(t0, t1) == t0 - t1

\* time.Since(start)
Since(t0, t1) == t1 - t0

\* faulty variant,every test is given the same browser context
NewContext_Shared(t) == 1

\* chromedp.NewContext(r.allocCtx): a context of its own for every call,
\* named after the test whose runTest call made it
NewContext(t) == t

\* faulty variant,runTest does not check r.allocCtx
RunTestBegin_NoCheck(t) ==
    /\ pc[t] = "runTest"
    /\ start' = [start EXCEPT ![t] = now]
    /\ result' = [result EXCEPT ![t] = NewResult(t, tests[t].Name)]
    /\ pc' = [pc EXCEPT ![t] = "init"]
    /\ opened' = opened + 1
    /\ ctx' = [ctx EXCEPT ![t] = NewContext(t)]
    /\ sessions' = sessions \cup {NewContext(t)}
    /\ UNCHANGED <<subVars, config, allocCtx, tests, chanVars, wg, mainVars, pcCloser,
                   idle, stepIdx, now, executed, delivered>>

\* start := time.Now(); result := TestResult{...};
\* if r.allocCtx == nil { ...; return result }; chromedp.NewContext
RunTestBegin(t) ==
    /\ pc[t] = "runTest"
    /\ start' = [start EXCEPT ![t] = now]
    /\ IF ~allocCtx
       THEN /\ result' = [result EXCEPT ![t] =
                   Failed(NewResult(t, tests[t].Name),
                          Err("browser not started", 0))]
            /\ pc' = [pc EXCEPT ![t] = "send"]
            /\ UNCHANGED <<opened, ctx, sessions>>
       ELSE /\ result' = [result EXCEPT ![t] =
                   NewResult(t, tests[t].Name)]
            /\ pc' = [pc EXCEPT ![t] = "init"]
            /\ opened' = opened + 1
            /\ ctx' = [ctx EXCEPT ![t] = NewContext(t)]
            /\ sessions' = sessions \cup {NewContext(t)}
    /\ UNCHANGED <<subVars, config, allocCtx, tests, chanVars, wg, mainVars, pcCloser,
                   idle, stepIdx, now, executed, delivered>>

\* faulty variant,the failed initialisation leaves the context open
InitBrowser_NoCancel(t) ==
    /\ pc[t] = "init"
    /\ \E err \in {Nil, Err("failed to initialize browser", 0)} :
          IF err # Nil
          THEN /\ result' = [result EXCEPT ![t] = Failed(@, err)]
               /\ pc' = [pc EXCEPT ![t] = "send"]
               /\ UNCHANGED stepIdx
          ELSE /\ pc' = [pc EXCEPT ![t] =
                      AfterStep(0, Len(tests[t].Steps), Nil)]
               /\ stepIdx' = [stepIdx EXCEPT ![t] = 1]
               /\ UNCHANGED result
    /\ UNCHANGED <<subVars, sessVars, config, allocCtx, tests, chanVars, wg,
                   mainVars, pcCloser, idle, start, now, ghostVars>>

\* chromedp.Run(ctx, chromedp.Navigate("about:blank")) fails or succeeds;
\* on failure runTest returns and the deferred cancels close the context,
\* on success chromedp.ListenTarget registers the console listener
InitBrowser(t) ==
    /\ pc[t] = "init"
    /\ \E err \in {Nil, Err("failed to initialize browser", 0)} :
          IF err # Nil
          THEN /\ result' = [result EXCEPT ![t] = Failed(@, err)]
               /\ pc' = [pc EXCEPT ![t] = "send"]
               /\ sessions' = sessions \ {ctx[t]}
               /\ UNCHANGED stepIdx
          ELSE /\ pc' = [pc EXCEPT ![t] =
                      AfterStep(0, Len(tests[t].Steps), Nil)]
               /\ stepIdx' = [stepIdx EXCEPT ![t] = 1]
               /\ UNCHANGED <<result, sessions>>
    /\ UNCHANGED <<subVars, ctx, config, allocCtx, tests, chanVars, wg,
                   mainVars, pcCloser, idle, start, now, ghostVars>>

\* faulty variant,a failing step also discards the tests still queued
ExecuteStep_AbortAll(t) ==
    /\ pc[t] = "steps"
    /\ \E err \in StepErrors(stepIdx[t]) :
          /\ executed' = [executed EXCEPT ![t] =
                 Append(@, [step |-> stepIdx[t], err |-> err])]
          /\ result' = [result EXCEPT ![t] = StepResult(@, err)]
          /\ pc' = [pc EXCEPT ![t] =
                 AfterStep(stepIdx[t], Len(tests[t].Steps), err)]
          /\ stepIdx' = [stepIdx EXCEPT ![t] = @ + 1]
          /\ testChan' = IF err # Nil THEN <<>> ELSE testChan
    /\ UNCHANGED <<subVars, sessVars, config, allocCtx, tests, testChanClosed, resultChan,
                   resultChanClosed, wg, mainVars, pcCloser, idle, start, now,
                   delivered, opened>>

\* one iteration of the step loop: r.executeStep(ctx, step, test.Name)
ExecuteStep(t) ==
    /\ pc[t] = "steps"
    /\ \E err \in StepErrors(stepIdx[t]) :
          /\ executed' = [executed EXCEPT ![t] =
                 Append(@, [step |-> stepIdx[t], err |-> err])]
          /\ result' = [result EXCEPT ![t] = StepResult(@, err)]
          /\ pc' = [pc EXCEPT ![t] =
                 AfterStep(stepIdx[t], Len(tests[t].Steps), err)]
          /\ stepIdx' = [stepIdx EXCEPT ![t] = @ + 1]
    /\ UNCHANGED <<subVars, sessVars, config, allocCtx, tests, chanVars, wg, mainVars, pcCloser,
                   idle, start, now, delivered, opened>>

\* the listener callback runs for one console event of the test's session
ConsoleEvent(t, ev) ==
    /\ pc[t] \in {"steps", "verdict", "return"}
    /\ Len(delivered[t]) < MaxEvents
    /\ delivered' = [delivered EXCEPT ![t] = Append(@, ev)]
    /\ result' = [result EXCEPT ![t].Errors = Listen(config, @, ev)]
    /\ UNCHANGED <<subVars, sessVars, config, allocCtx, tests, chanVars, wg, mainVars, pcCloser,
                   idle, pc, stepIdx, start, now, executed, opened>>

\* the console verdict after the loop; result.Duration = time.Since(start)
Verdict(t) ==
    /\ pc[t] = "verdict"
    /\ result' = [result EXCEPT ![t] =
           [ConsoleVerdict(config, @) EXCEPT !.Duration = Since(start[t], now)]]
    /\ pc' = [pc EXCEPT ![t] = "return"]
    /\ UNCHANGED <<subVars, sessVars, config, allocCtx, tests, chanVars, wg, mainVars, pcCloser,
                   idle, stepIdx, start, now, ghostVars>>

\* return result: the value is copied and the deferred cancels close the
\* session, which ends the listener
Return(t) ==
    /\ pc[t] = "return"
    /\ pc' = [pc EXCEPT ![t] = "send"]
    /\ sessions' = sessions \ {ctx[t]}
    /\ UNCHANGED <<subVars, ctx, config, allocCtx, tests, chanVars, wg, mainVars, pcCloser,
                   idle, stepIdx, start, result, now, ghostVars>>

\* the accesses to result.Errors of test t that can come next, each with
\* the mutexes its goroutine holds while it makes it: the console listener
\* appends between r.mu.Lock() and r.mu.Unlock(); runTest takes
\* len(result.Errors) when FailOnConsoleError is set, and copies result
\* for its return, and locks nothing
Accesses(t) ==
    (IF pc[t] \in {"steps", "verdict", "return"}
        /\ Len(delivered[t]) < MaxEvents
     THEN {[by |-> "listener", op |-> "append", locks |-> {"r.mu"}]}
     ELSE {})
    \cup
    (IF pc[t] = "verdict" /\ config.FailOnConsoleError
     THEN {[by |-> "runTest", op |-> "len", locks |-> {}]}
     ELSE {})
    \cup
    (IF pc[t] = "return"
     THEN {[by |-> "runTest", op |-> "copy", locks |-> {}]}
     ELSE {})

Next ==
    \/ Start
    \/ \E test \in Tests : AddTest(test)
    \/ RunBegin
    \/ Enqueue
    \/ CloseTestChan
    \/ CloseResultChan
    \/ Collect
    \/ RunReturn
    \/ WorkerRecv
    \/ WorkerExit
    \/ \E t \in 1..Len(tests) : SendResult(t)
    \/ \E t \in 1..Len(tests) : RunTestBegin(t)
    \/ \E t \in 1..Len(tests) : InitBrowser(t)
    \/ \E t \in 1..Len(tests) : ExecuteStep(t)
    \/ \E t \in 1..Len(tests), ev \in ConsoleEvents : ConsoleEvent(t, ev)
    \/ \E t \in 1..Len(tests) : Verdict(t)
    \/ \E t \in 1..Len(tests) : Return(t)

\* the runner with the clock standing still
Spec == Init /\ [][Next]_vars

\* the runner while time passes
NextTimed == Next \/ Tick

SpecTimed == Init /\ [][NextTimed]_vars

\* what the Go scheduler guarantees: a goroutine that can take a step
\* eventually takes one; a protocol round trip eventually returns
Progress ==
    \/ RunBegin
    \/ Enqueue
    \/ CloseTestChan
    \/ CloseResultChan
    \/ Collect
    \/ RunReturn
    \/ WorkerRecv
    \/ WorkerExit
    \/ \E t \in 1..Len(tests) : SendResult(t)
    \/ \E t \in 1..Len(tests) : RunTestBegin(t)
    \/ \E t \in 1..Len(tests) : InitBrowser(t)
    \/ \E t \in 1..Len(tests) : ExecuteStep(t)
    \/ \E t \in 1..Len(tests) : Verdict(t)
    \/ \E t \in 1..Len(tests) : Return(t)

FairSpec == Init /\ [][Next]_vars /\ WF_vars(Progress)

\* the worker pool under load: up to MaxPoolTests tests without steps, so
\* that more tests than workers are queued
NextPool ==
    \/ Start
    \/ AddPoolTest
    \/ RunBegin
    \/ Enqueue
    \/ CloseTestChan
    \/ CloseResultChan
    \/ Collect
    \/ RunReturn
    \/ WorkerRecv
    \/ WorkerExit
    \/ \E t \in 1..Len(tests) : SendResult(t)
    \/ \E t \in 1..Len(tests) : RunTestBegin(t)
    \/ \E t \in 1..Len(tests) : InitBrowser(t)
    \/ \E t \in 1..Len(tests) : Verdict(t)
    \/ \E t \in 1..Len(tests) : Return(t)

\* NewRunner(nil): the default configuration
InitPool ==
    /\ Init
    /\ config = [FailOnConsoleError |-> TRUE, ErrorFilter |-> "nil"]

SpecPool == InitPool /\ [][NextPool]_vars

\* ------------------------------------------------ Runner.RunWithProgress
\* The caller (main) makes an unbuffered resultsChan and a WaitGroup,
\* starts a goroutine that ranges over resultsChan and calls wg.Done()
\* for every result, calls RunWithProgress and then wg.Wait().
\* RunWithProgress has the workers, the channels and the closing goroutine
\* of Run; only its collecting loop differs.
AddProgressTest == Add(PoolTest(Len(tests) + 1), MaxProgressTests)

\* what the actions of the caller and of the collecting loop leave alone
poolVars ==
    <<config, allocCtx, tests, testChan, testChanClosed, resultChanClosed,
      wg, sent, pcCloser, workerVars, now, ghostVars, sessVars, stepVars,
      shotVars, parseVars, bandVars>>

\* main: resultsChan := make(chan TestResult); go func() { for result :=
\* range resultsChan { ... } }()
GoConsumer ==
    /\ pcMain = "setup"
    /\ pcMain' = "call"
    /\ pcConsumer' = "recv"
    /\ UNCHANGED <<poolVars, results, resultChan, uiWg, received, handled>>

\* RunWithProgress: make the channels, workerWg.Add(numWorkers), start
\* the workers
RunWithProgressBegin ==
    /\ pcMain = "call"
    /\ pcMain' = "enqueue"
    /\ results' = <<>>
    /\ wg' = numWorkers
    /\ idle' = numWorkers
    /\ UNCHANGED <<subVars, sessVars, config, allocCtx, tests, chanVars,
                   pcCloser, sent, pc, stepIdx, start, result, now,
                   ghostVars>>

\* for result := range resultCollector { r.results = append(r.results,
\* result)
CollectProgress ==
    /\ pcMain = "collect"
    /\ resultChan # <<>>
    /\ results' = Append(results, Head(resultChan))
    /\ resultChan' = Tail(resultChan)
    /\ pcMain' = "add"
    /\ UNCHANGED <<poolVars, progVars>>

\* faulty variant,the caller's WaitGroup is not incremented
AddOne_NoAdd ==
    /\ pcMain = "add"
    /\ pcMain' = "send"
    /\ UNCHANGED <<poolVars, results, resultChan, progVars>>

\* wg.Add(1)
AddOne ==
    /\ pcMain = "add"
    /\ uiWg' = uiWg + 1
    /\ pcMain' = "send"
    /\ UNCHANGED <<poolVars, results, resultChan, pcConsumer, received,
                   handled>>

\* resultsChan <- result: the channel is unbuffered, the send happens
\* together with the receive of the caller's goroutine
Forward ==
    /\ pcMain = "send"
    /\ pcConsumer = "recv"
    /\ received' = Append(received, results[Len(results)])
    /\ pcConsumer' = "handle"
    /\ pcMain' = "collect"
    /\ UNCHANGED <<poolVars, results, resultChan, uiWg, handled>>

\* the caller's goroutine prints the result; wg.Done()
Handle ==
    /\ pcConsumer = "handle"
    /\ handled' = handled + 1
    /\ uiWg' = uiWg - 1
    /\ pcConsumer' = "recv"
    /\ UNCHANGED <<poolVars, results, resultChan, pcMain, received>>

\* faulty variant,the loop ends as soon as the channel is empty
ProgressReturn_Early ==
    /\ pcMain = "collect"
    /\ resultChan = <<>>
    /\ pcMain' = "returned"
    /\ UNCHANGED <<poolVars, results, resultChan, progVars>>

\* the range over resultCollector ends; return r.results
ProgressReturn ==
    /\ pcMain = "collect"
    /\ resultChan = <<>>
    /\ resultChanClosed
    /\ pcMain' = "returned"
    /\ UNCHANGED <<poolVars, results, resultChan, progVars>>

\* main: wg.Wait() returns when the counter is zero
Wait ==
    /\ pcMain = "returned"
    /\ uiWg = 0
    /\ pcMain' = "done"
    /\ UNCHANGED <<poolVars, results, resultChan, progVars>>

NextProgress ==
    \/ Start
    \/ AddProgressTest
    \/ GoConsumer
    \/ RunWithProgressBegin
    \/ Enqueue
    \/ CloseTestChan
    \/ CloseResultChan
    \/ CollectProgress
    \/ AddOne
    \/ Forward
    \/ Handle
    \/ ProgressReturn
    \/ Wait
    \/ WorkerRecv
    \/ WorkerExit
    \/ \E t \in 1..Len(tests) : SendResult(t)
    \/ \E t \in 1..Len(tests) : RunTestBegin(t)
    \/ \E t \in 1..Len(tests) : InitBrowser(t)
    \/ \E t \in 1..Len(tests) : Verdict(t)
    \/ \E t \in 1..Len(tests) : Return(t)

SpecProgress == InitPool /\ [][NextProgress]_vars

\* what the Go scheduler guarantees to the goroutines of a running
\* RunWithProgress and to its caller
ProgressSteps ==
    \/ Enqueue
    \/ CloseTestChan
    \/ CloseResultChan
    \/ CollectProgress
    \/ AddOne
    \/ Forward
    \/ Handle
    \/ ProgressReturn
    \/ Wait
    \/ WorkerRecv
    \/ WorkerExit
    \/ \E t \in 1..Len(tests) : SendResult(t)
    \/ \E t \in 1..Len(tests) : RunTestBegin(t)
    \/ \E t \in 1..Len(tests) : InitBrowser(t)
    \/ \E t \in 1..Len(tests) : Verdict(t)
    \/ \E t \in 1..Len(tests) : Return(t)

FairProgress == SpecProgress /\ WF_vars(ProgressSteps)

\* ------------------------------------- runTest under its deadline (timed)
\* One test is followed through runTest and executeStep with the clock
\* running; the unit of time is the period of wait_for_url's ticker.
TimedTests ==
    UNION { [1..n -> {"click", "wait_for_url"}] : n \in 0..MaxSteps }

DeadlineExceeded == Err("context deadline exceeded", 0)

URLTimeout == Err("timeout waiting for URL to contain", 0)

Pending == Err("pending", 0)

\* chromedp.Run(ctx, ...) called at t0 on a context with deadline dl, for a
\* round trip that needs d and would return err: the outcomes it can have.
\* The round trip returns its own result if it ends before the context
\* does, and the context's error once the deadline is reached.
RunOutcomes(t0, dl, d, err) ==
    (IF t0 < dl /\ t0 + d <= dl
     THEN {[end |-> t0 + d, err |-> err]} ELSE {})
    \cup
    (IF t0 + d >= dl
     THEN {[end |-> IF t0 >= dl THEN t0 ELSE dl, err |-> DeadlineExceeded]} ELSE {})

InitDeadline ==
    /\ InitRunner
    /\ allocCtx = TRUE
    /\ InitShots
    /\ config = [FailOnConsoleError |-> TRUE, ErrorFilter |-> "nil"]
    /\ timeout \in 1..MaxTimeout
    /\ deadline = 0
    /\ timedSteps \in TimedTests
    /\ tpc = "runTest"
    /\ ti = 0
    /\ ticker = FALSE
    /\ tlog = <<>>
    /\ terr = Nil

runnerVars ==
    <<config, allocCtx, tests, chanVars, wg, mainVars, pcCloser, workerVars,
      ghostVars, sessVars, progVars, parseVars, bandVars>>

\* ctx, cancel = context.WithTimeout(ctx, r.config.Timeout): the deadline
\* of the whole test is fixed here; then the step loop is entered
WithTimeout ==
    /\ tpc = "runTest"
    /\ deadline' = now + timeout
    /\ tpc' = AfterStep(0, Len(timedSteps), Nil)
    /\ ti' = 1
    /\ UNCHANGED <<runnerVars, shotVars, now, timeout, timedSteps, ticker, tlog, terr>>

\* the step loop after step ti returned err
EndStep(err) ==
    /\ terr' = IF err # Nil THEN err ELSE terr
    /\ tpc' = AfterStep(ti, Len(timedSteps), err)
    /\ ti' = ti + 1

\* executeStep for an action that is one chromedp.Run(ctx, ...) call on the
\* test's context
RoundTrip ==
    /\ tpc = "steps"
    /\ timedSteps[ti] # "wait_for_url"
    /\ \E d \in 0..MaxStepTime, err \in StepErrors(ti) :
          \E res \in RunOutcomes(now, deadline, d, err) :
              /\ now' = res.end
              /\ tlog' = Append(tlog, [action |-> timedSteps[ti],
                     begin |-> now, end |-> res.end, err |-> res.err,
                     polls |-> <<>>])
              /\ EndStep(res.err)
    /\ UNCHANGED <<runnerVars, shotVars, timeout, deadline, timedSteps, ticker>>

\* case "wait_for_url": ticker := time.NewTicker(...); deadline, ok :=
\* ctx.Deadline()
WaitForURLBegin ==
    /\ tpc = "steps"
    /\ timedSteps[ti] = "wait_for_url"
    /\ ticker' = FALSE
    /\ tlog' = Append(tlog, [action |-> "wait_for_url", begin |-> now,
           end |-> now, err |-> Pending, polls |-> <<>>])
    /\ tpc' = "loop"
    /\ UNCHANGED <<runnerVars, shotVars, now, timeout, deadline, timedSteps, ti, terr>>

\* wait_for_url returns err: the entry of the step is closed
EndWait(err, polls, end) ==
    /\ tlog' = [tlog EXCEPT ![Len(tlog)] =
           [@ EXCEPT !.end = end, !.err = err, !.polls = polls]]
    /\ EndStep(err)

\* for time.Now().Before(deadline) { ... }; return timeout error
LoopCheck ==
    /\ tpc = "loop"
    /\ IF now < deadline
       THEN /\ tpc' = "poll"
            /\ UNCHANGED <<ti, tlog, terr>>
       ELSE EndWait(URLTimeout, tlog[Len(tlog)].polls, now)
    /\ now' = now
    /\ UNCHANGED <<runnerVars, shotVars, timeout, deadline, timedSteps, ticker>>

\* faulty variant,any URL that could be read counts as a match
PollURL_NoContains ==
    /\ tpc = "poll"
    /\ \E d \in 0..1, obs \in {"match", "nomatch", "err"} :
          \E res \in RunOutcomes(now, deadline, d,
                         IF obs = "err" THEN Err("step", ti) ELSE Nil) :
              LET seen == IF res.err # Nil THEN "err" ELSE obs
                  polls == Append(tlog[Len(tlog)].polls, seen)
              IN  /\ now' = res.end
                  /\ ticker' = (ticker \/ res.end > now)
                  /\ IF seen # "err"
                     THEN EndWait(Nil, polls, res.end)
                     ELSE /\ tlog' = [tlog EXCEPT ![Len(tlog)].polls = polls]
                          /\ tpc' = "select"
                          /\ UNCHANGED <<ti, terr>>
    /\ UNCHANGED <<runnerVars, shotVars, timeout, deadline, timedSteps>>

\* chromedp.Run(ctx, chromedp.Location(&currentURL)) and the test
\* strings.Contains(currentURL, step.Target)
PollURL ==
    /\ tpc = "poll"
    /\ \E d \in 0..1, obs \in {"match", "nomatch", "err"} :
          \E res \in RunOutcomes(now, deadline, d,
                         IF obs = "err" THEN Err("step", ti) ELSE Nil) :
              LET seen == IF res.err # Nil THEN "err" ELSE obs
                  polls == Append(tlog[Len(tlog)].polls, seen)
              IN  /\ now' = res.end
                  /\ ticker' = (ticker \/ res.end > now)
                  /\ IF seen = "match"
                     THEN EndWait(Nil, polls, res.end)
                     ELSE /\ tlog' = [tlog EXCEPT ![Len(tlog)].polls = polls]
                          /\ tpc' = "select"
                          /\ UNCHANGED <<ti, terr>>
    /\ UNCHANGED <<runnerVars, shotVars, timeout, deadline, timedSteps>>

\* select { case <-ticker.C: continue; case <-ctx.Done(): return timeout
\* error }: blocks until a tick or the end of the context, and takes
\* either case when both are ready
SelectTick ==
    /\ tpc = "select"
    /\ LET t1 == IF ticker \/ now >= deadline THEN now ELSE now + 1
           tick == ticker \/ t1 > now
           done == t1 >= deadline
       IN  /\ now' = t1
           /\ \/ /\ tick
                 /\ ticker' = FALSE
                 /\ tpc' = "loop"
                 /\ UNCHANGED <<ti, tlog, terr>>
              \/ /\ done
                 /\ ticker' = tick
                 /\ EndWait(URLTimeout, tlog[Len(tlog)].polls, t1)
    /\ UNCHANGED <<runnerVars, shotVars, timeout, deadline, timedSteps>>

\* the step loop is over: runTest returns and the deferred cancels run
ReturnTimed ==
    /\ tpc = "verdict"
    /\ tpc' = "done"
    /\ UNCHANGED <<runnerVars, shotVars, now, timeout, deadline, timedSteps, ti,
                   ticker, tlog, terr>>

NextDeadline ==
    \/ WithTimeout
    \/ RoundTrip
    \/ WaitForURLBegin
    \/ LoopCheck
    \/ PollURL
    \/ SelectTick
    \/ ReturnTimed

SpecDeadline == InitDeadline /\ [][NextDeadline]_vars

\* every call of the test's goroutine returns and the clock advances
FairDeadline == SpecDeadline /\ WF_vars(NextDeadline)

\* ------------------------------------------- executeStep, action by action
\* One test is followed through the step loop of runTest; the browser
\* answers each chromedp.Run call with a reply.
\* the case labels of the switch in executeStep
KnownActions ==
    {"navigate", "click", "type", "wait_for", "assert_text",
     "assert_element_exists", "assert_element_not_exists",
     "assert_text_contains", "assert_url", "assert_title",
     "assert_attribute", "screenshot", "snapshot", "wait_for_text",
     "wait_for_url", "select", "check", "uncheck", "hover",
     "assert_text_visible"}

RECURSIVE Split(_, _)
\* strings.Split(s, sep) for a separator of one character
Split(s, sep) ==
    IF \A i \in 1..Len(s) : s[i] # sep THEN <<s>>
    ELSE LET i == CHOOSE j \in 1..Len(s) :
                      s[j] = sep /\ \A k \in 1..(j - 1) : s[k] # sep
         IN  <<SubSeq(s, 1, i - 1)>> \o Split(SubSeq(s, i + 1, Len(s)), sep)

\* what the browser can answer to a chromedp.Run call: an error (of the
\* protocol, or the deadline of the context), or the nodes found, or
\* whether the attribute is there and its value
Replies ==
    [err : {Nil, Err("protocol error", 0), DeadlineExceeded}, nodes : 0..1,
     ok : BOOLEAN, value : {<<"v">>, <<"w">>}]

UnknownAction(action) == [kind |-> "unknown action", n |-> 0, action |-> action]

\* faulty variant,the switch lacks the cases snapshot and assert_text_visible
executeStep_NoSnapshot(step, reply) ==
    IF step.Action \in {"snapshot", "assert_text_visible"}
    THEN [calls |-> <<>>, err |-> UnknownAction(step.Action)]
    ELSE [calls |-> <<[op |-> step.Action]>>, err |-> reply.err]

\* faulty variant,a failed lookup fails assert_element_not_exists too
executeStep_LookupMustSucceed(step, reply) ==
    IF step.Action = "assert_element_not_exists"
    THEN [calls |-> <<[op |-> "Nodes"]>>,
          err |-> IF reply.err # Nil THEN reply.err
                  ELSE IF reply.nodes > 0
                  THEN Err("element should not exist", 0) ELSE Nil]
    ELSE IF step.Action = "assert_element_exists"
    THEN [calls |-> <<[op |-> "Nodes"]>>,
          err |-> IF reply.err # Nil \/ reply.nodes = 0
                  THEN Err("element not found", 0) ELSE Nil]
    ELSE [calls |-> <<[op |-> step.Action]>>, err |-> reply.err]

\* faulty variant,a step with an unknown action is passed over
executeStep_SkipUnknown(step, reply) ==
    IF step.Action \notin KnownActions
    THEN [calls |-> <<>>, err |-> Nil]
    ELSE [calls |-> <<[op |-> step.Action]>>, err |-> reply.err]

\* faulty variant,the attribute's value is not compared
executeStep_AnyValue(step, reply) ==
    IF step.Action = "assert_attribute"
    THEN LET parts == Split(step.Target, "|")
         IN  IF Len(parts) # 2
             THEN [calls |-> <<>>,
                   err |-> Err("invalid assert_attribute format", 0)]
             ELSE [calls |-> <<[op |-> "AttributeValue",
                                selector |-> parts[1],
                                attribute |-> parts[2]]>>,
                   err |-> IF reply.err # Nil THEN reply.err
                           ELSE IF ~reply.ok
                           THEN Err("attribute not found", 0)
                           ELSE Nil]
    ELSE [calls |-> <<[op |-> step.Action]>>, err |-> reply.err]

\* Runner.executeStep(ctx, step, testName) when the browser answers with
\* reply: the chromedp.Run calls made and the error returned. The cases
\* with a loop or with files (wait_for_text, wait_for_url, screenshot,
\* snapshot) and the other assertions are given as one call whose error
\* is returned.
executeStep(step, reply) ==
    CASE step.Action \in {"navigate", "click", "type", "wait_for", "check",
                           "uncheck"} ->
           [calls |-> <<[op |-> step.Action]>>, err |-> reply.err]
      [] step.Action = "assert_element_exists" ->
           [calls |-> <<[op |-> "Nodes"]>>,
            err |-> IF reply.err # Nil \/ reply.nodes = 0
                    THEN Err("element not found", 0) ELSE Nil]
      [] step.Action = "assert_element_not_exists" ->
           [calls |-> <<[op |-> "Nodes"]>>,
            err |-> IF reply.err = Nil /\ reply.nodes > 0
                    THEN Err("element should not exist", 0) ELSE Nil]
      [] step.Action = "assert_attribute" ->
           LET parts == Split(step.Target, "|")
           IN  IF Len(parts) # 2
               THEN [calls |-> <<>>,
                     err |-> Err("invalid assert_attribute format", 0)]
               ELSE [calls |-> <<[op |-> "AttributeValue",
                                  selector |-> parts[1],
                                  attribute |-> parts[2]]>>,
                     err |-> IF reply.err # Nil THEN reply.err
                             ELSE IF ~reply.ok
                             THEN Err("attribute not found", 0)
                             ELSE IF reply.value # step.Value
                             THEN Err("expected attribute", 0)
                             ELSE Nil]
      [] step.Action \in KnownActions ->
           [calls |-> <<[op |-> step.Action]>>, err |-> reply.err]
      [] OTHER ->
           [calls |-> <<>>, err |-> UnknownAction(step.Action)]

\* the steps of the tests followed here; "frobnicate" is no action of
\* executeStep. The targets of the assert_attribute steps are selector and
\* attribute name joined by '|', and texts with no or several '|'.
DispatchSteps ==
    { [Action |-> a, Target |-> <<"s">>, Value |-> <<"v">>] :
        a \in {"click", "assert_element_exists",
               "assert_element_not_exists", "frobnicate"} } \cup
    { [Action |-> "assert_attribute", Target |-> target, Value |-> <<"v">>] :
        target \in UNION { [1..n -> {"s", "|"}] : n \in 0..MaxTargetLen } }

\* runTest has made the session and is about to enter the step loop of a
\* test with one to MaxActionSteps steps
InitDispatch ==
    /\ InitRunner
    /\ allocCtx = TRUE
    /\ InitShots
    /\ config = [FailOnConsoleError |-> TRUE, ErrorFilter |-> "nil"]
    /\ timeout = 0
    /\ deadline = 0
    /\ timedSteps \in UNION { [1..n -> DispatchSteps] :
                                 n \in 1..MaxActionSteps }
    /\ tpc = "steps"
    /\ ti = 1
    /\ ticker = FALSE
    /\ tlog = <<>>
    /\ terr = Nil

\* one iteration of the step loop: executeStep with the browser's reply,
\* then on to the next step or out of the loop
Dispatch ==
    /\ tpc = "steps"
    /\ \E reply \in Replies :
          LET out == executeStep(timedSteps[ti], reply)
          IN  /\ tlog' = Append(tlog, [step |-> timedSteps[ti],
                                       reply |-> reply,
                                       calls |-> out.calls,
                                       err |-> out.err])
              /\ EndStep(out.err)
    /\ UNCHANGED <<runnerVars, shotVars, now, timeout, deadline, timedSteps,
                   ticker>>

NextDispatch ==
    \/ Dispatch
    \/ ReturnTimed

SpecDispatch == InitDispatch /\ [][NextDispatch]_vars

\* The screenshot and snapshot steps of the tests that run side by side, on
\* the files below r.config.ScreenshotDir and r.config.SnapshotDir. The
\* directories are writable: os.MkdirAll, os.ReadFile and os.WriteFile
\* succeed.
Ext(action) == IF action = "screenshot" THEN PngExt ELSE HtmlExt

\* filepath.Join(r.config.ScreenshotDir, filename) and
\* filepath.Join(r.config.SnapshotDir, filename)
Path(action, filename) ==
    IF action = "screenshot"
    THEN Join(<<"__screenshots__">>, filename)
    ELSE Join(<<"__snapshots__">>, filename)

\* the steps `screenshot` and `screenshot "a.png"` (and the same for
\* snapshot) of the test files
ShotSteps ==
    { [Action |-> a, Target |-> f, Value |-> <<>>] :
        a \in {"screenshot", "snapshot"}, f \in {<<>>} } \cup
    { [Action |-> a, Target |-> <<"a">> \o Ext(a), Value |-> <<>>] :
        a \in {"screenshot", "snapshot"} }

\* the tests with the given names and at most n steps
ShotTests(names, n) ==
    UNION { { [Name |-> name, Steps |-> steps] :
                name \in names, steps \in [1..k -> ShotSteps] } :
            k \in 0..n }

\* test names with the characters that are replaced in file names
TestNames == UNION { [1..n -> {"a", " ", "/", "\\"}] : n \in 1..MaxNameLen }

Thresholds == {Fraction(0, 1), Fraction(1, 2)}

\* os.WriteFile(path, data, 0644)
WriteFile(fs, path, data) ==
    [p \in DOMAIN fs \cup {path} |-> IF p = path THEN data ELSE fs[p]]

\* os.Stat(path) returns no error
Exists(fs, path) == path \in DOMAIN fs

\* the entry in shotLog of the step of test w that is under way
Cur(w) == shotLog[w][Len(shotLog[w])]

SetCur(w, e) ==
    shotLog' = [shotLog EXCEPT ![w] = [@ EXCEPT ![Len(@)] = e]]

\* the step returned err: the step loop of runTest goes on or breaks
NextShot(w, err) ==
    IF err = Nil /\ si[w] < Len(shotTests[w].Steps)
    THEN /\ spc' = [spc EXCEPT ![w] = "step"]
         /\ si' = [si EXCEPT ![w] = @ + 1]
    ELSE /\ spc' = [spc EXCEPT ![w] = "done"]
         /\ UNCHANGED si

\* faulty variant,a step with a file name advances the counter too
ResolveName_CountsAll(w) ==
    /\ spc[w] = "step"
    /\ LET step == shotTests[w].Steps[si[w]]
           name == shotTests[w].Name
           auto == step.Target = <<>>
           counters == IF step.Action = "screenshot"
                       THEN screenshotCounter ELSE snapshotCounter
           counter == Count(counters, name) + 1
           filename == IF auto THEN AutoName(name, counter, Ext(step.Action))
                       ELSE step.Target
       IN  /\ screenshotCounter' =
                 IF step.Action = "screenshot"
                 THEN Increment(screenshotCounter, name)
                 ELSE screenshotCounter
           /\ snapshotCounter' =
                 IF step.Action = "snapshot"
                 THEN Increment(snapshotCounter, name)
                 ELSE snapshotCounter
           /\ shotLog' = [shotLog EXCEPT ![w] = Append(@,
                 [action |-> step.Action, testName |-> name,
                  target |-> step.Target, filename |-> filename,
                  path |-> Path(step.Action, filename), data |-> NoImage,
                  found |-> FALSE, baseline |-> NoImage, compared |-> FALSE,
                  written |-> {}, overwrote |-> FALSE, err |-> Pending])]
    /\ spc' = [spc EXCEPT ![w] = "capture"]
    /\ UNCHANGED <<runnerVars, now, stepVars, shotConfig, files, renders,
                   shotTests, si>>

\* takeScreenshot / takeSnapshot: if filename == "" the name is made from
\* the test name and the counter, which is incremented under r.mu
ResolveName(w) ==
    /\ spc[w] = "step"
    /\ LET step == shotTests[w].Steps[si[w]]
           name == shotTests[w].Name
           auto == step.Target = <<>>
           counters == IF step.Action = "screenshot"
                       THEN screenshotCounter ELSE snapshotCounter
           counter == Count(counters, name) + 1
           filename == IF auto THEN AutoName(name, counter, Ext(step.Action))
                       ELSE step.Target
       IN  /\ screenshotCounter' =
                 IF auto /\ step.Action = "screenshot"
                 THEN Increment(screenshotCounter, name)
                 ELSE screenshotCounter
           /\ snapshotCounter' =
                 IF auto /\ step.Action = "snapshot"
                 THEN Increment(snapshotCounter, name)
                 ELSE snapshotCounter
           /\ shotLog' = [shotLog EXCEPT ![w] = Append(@,
                 [action |-> step.Action, testName |-> name,
                  target |-> step.Target, filename |-> filename,
                  path |-> Path(step.Action, filename), data |-> NoImage,
                  found |-> FALSE, baseline |-> NoImage, compared |-> FALSE,
                  written |-> {}, overwrote |-> FALSE, err |-> Pending])]
    /\ spc' = [spc EXCEPT ![w] = "capture"]
    /\ UNCHANGED <<runnerVars, now, stepVars, shotConfig, files, renders,
                   shotTests, si>>

\* os.MkdirAll; chromedp.FullScreenshot or chromedp.Evaluate(outerHTML)
\* delivers the capture or fails
Capture(w) ==
    /\ spc[w] = "capture"
    /\ \/ \E data \in renders :
             /\ data.type = (IF Cur(w).action = "screenshot"
                             THEN "png" ELSE "html")
             /\ SetCur(w, [Cur(w) EXCEPT !.data = data])
             /\ spc' = [spc EXCEPT ![w] = "stat"]
             /\ UNCHANGED si
       \/ /\ SetCur(w, [Cur(w) EXCEPT !.err = Err("failed to capture", 0)])
          /\ NextShot(w, Err("failed to capture", 0))
    /\ UNCHANGED <<runnerVars, now, stepVars, shotConfig, files,
                   screenshotCounter, snapshotCounter, renders, shotTests>>

\* if _, err := os.Stat(path); err == nil { ... }
Stat(w) ==
    /\ spc[w] = "stat"
    /\ SetCur(w, [Cur(w) EXCEPT !.found = Exists(files, Cur(w).path)])
    /\ spc' = [spc EXCEPT ![w] =
           IF Exists(files, Cur(w).path) THEN "compare" ELSE "write"]
    /\ UNCHANGED <<runnerVars, now, stepVars, shotConfig, files,
                   screenshotCounter, snapshotCounter, renders, shotTests,
                   si>>

\* the verb %.2f%% of fmt.Sprintf applied to f*100: the percentage in
\* hundredths of a percent, rounded to the nearest
Percent(f) == (2 * 10000 * f[1] + f[2]) \div (2 * f[2])

\* fmt.Errorf("screenshot differs from baseline by %.2f%% (threshold:
\* %.2f%%). Delete the old screenshot at %s to save the new one", ...)
ScreenshotDiffers(diff, threshold, path) ==
    [kind |-> "screenshot differs from baseline", n |-> 0,
     diff |-> Percent(diff), threshold |-> Percent(threshold),
     path |-> path]

\* fmt.Errorf("snapshot differs from baseline. Delete the old snapshot at
\* %s to save the new one", path)
SnapshotDiffers(path) ==
    [kind |-> "snapshot differs from baseline", n |-> 0, path |-> path]

\* the files and the error of a screenshot step whose baseline exists
CompareScreenshot(cfg, fs, path, screenshot) ==
    LET cmp == compareImages(fs[path], screenshot)
        actualPath == TrimSuffix(path, PngExt) \o <<".actual">> \o PngExt
        diffPath == TrimSuffix(path, PngExt) \o <<".diff">> \o PngExt
        fs1 == WriteFile(fs, actualPath, screenshot)
    IN  IF cmp.err # Nil
        THEN [files |-> fs, written |-> {},
              err |-> Err("failed to compare screenshots", 0)]
        ELSE IF Exceeds(cmp.diff, cfg.ScreenshotThreshold)
        THEN IF cmp.diffImage # NoImage
             THEN [files |-> WriteFile(fs1, diffPath, cmp.diffImage),
                   written |-> {actualPath, diffPath},
                   err |-> ScreenshotDiffers(cmp.diff,
                                             cfg.ScreenshotThreshold, path)]
             ELSE [files |-> fs1, written |-> {actualPath},
                   err |-> ScreenshotDiffers(cmp.diff,
                                             cfg.ScreenshotThreshold, path)]
        ELSE [files |-> fs, written |-> {}, err |-> Nil]

\* faulty variant,the diff page of a snapshot is not saved
CompareSnapshot_NoDiff(cfg, fs, path, html) ==
    LET actualPath == TrimSuffix(path, HtmlExt) \o <<".actual">> \o HtmlExt
    IN  IF ~compareSnapshots(fs[path].text, html.text)
        THEN [files |-> WriteFile(fs, actualPath, html),
              written |-> {actualPath},
              err |-> SnapshotDiffers(path)]
        ELSE [files |-> fs, written |-> {}, err |-> Nil]

\* the files and the error of a snapshot step whose baseline exists
CompareSnapshot(cfg, fs, path, html) ==
    LET actualPath == TrimSuffix(path, HtmlExt) \o <<".actual">> \o HtmlExt
        diffPath == TrimSuffix(path, HtmlExt) \o <<".diff">> \o HtmlExt
    IN  IF ~compareSnapshots(fs[path].text, html.text)
        THEN [files |-> WriteFile(WriteFile(fs, actualPath, html), diffPath,
                            generateHTMLDiff(fs[path].text, html.text)),
              written |-> {actualPath, diffPath},
              err |-> SnapshotDiffers(path)]
        ELSE [files |-> fs, written |-> {}, err |-> Nil]

\* the baseline exists: os.ReadFile(path), the comparison, and on a
\* difference the .actual and .diff files and the error
Compare(w) ==
    /\ spc[w] = "compare"
    /\ LET e == Cur(w)
           res == IF e.action = "screenshot"
                  THEN CompareScreenshot(shotConfig, files, e.path, e.data)
                  ELSE CompareSnapshot(shotConfig, files, e.path, e.data)
       IN  /\ files' = res.files
           /\ SetCur(w, [e EXCEPT !.baseline = files[e.path],
                                  !.compared = TRUE,
                                  !.written = res.written,
                                  !.err = res.err])
           /\ NextShot(w, res.err)
    /\ UNCHANGED <<runnerVars, now, stepVars, shotConfig, screenshotCounter,
                   snapshotCounter, renders, shotTests>>

\* faulty variant,the step succeeds without saving its capture
WriteBaseline_NoWrite(w) ==
    /\ spc[w] = "write"
    /\ files' = files
    /\ SetCur(w, [Cur(w) EXCEPT !.err = Nil])
    /\ NextShot(w, Nil)
    /\ UNCHANGED <<runnerVars, now, stepVars, shotConfig, screenshotCounter,
                   snapshotCounter, renders, shotTests>>

\* no baseline was found: os.WriteFile(path, capture); return nil
WriteBaseline(w) ==
    /\ spc[w] = "write"
    /\ files' = WriteFile(files, Cur(w).path, Cur(w).data)
    /\ SetCur(w, [Cur(w) EXCEPT !.written = {Cur(w).path},
                                !.overwrote = Exists(files, Cur(w).path),
                                !.err = Nil])
    /\ NextShot(w, Nil)
    /\ UNCHANGED <<runnerVars, now, stepVars, shotConfig, screenshotCounter,
                   snapshotCounter, renders, shotTests>>

NextShots ==
    \/ \E w \in 1..Len(shotTests) : ResolveName(w)
    \/ \E w \in 1..Len(shotTests) : Capture(w)
    \/ \E w \in 1..Len(shotTests) : Stat(w)
    \/ \E w \in 1..Len(shotTests) : Compare(w)
    \/ \E w \in 1..Len(shotTests) : WriteBaseline(w)

\* where the step loop of a test with the given steps starts
FirstShot(test) == IF Len(test.Steps) > 0 THEN "step" ELSE "done"

\* two tests with at most MaxShotSteps steps each run side by side
InitBaselines ==
    /\ InitRunner
    /\ allocCtx = TRUE
    /\ config = [FailOnConsoleError |-> TRUE, ErrorFilter |-> "nil"]
    /\ InitSteps
    /\ shotConfig \in [UpdateScreenshots : BOOLEAN, UpdateSnapshots : BOOLEAN,
                       ScreenshotThreshold : Thresholds]
    /\ files = NoFiles
    /\ screenshotCounter = NoFiles
    /\ snapshotCounter = NoFiles
    /\ renders = Images \cup Htmls
    /\ shotTests \in [1..2 -> ShotTests({<<"a">>}, MaxShotSteps)]
    /\ spc = [w \in 1..2 |-> FirstShot(shotTests[w])]
    /\ si = [w \in 1..2 |-> 1]
    /\ shotLog = [w \in 1..2 |-> <<>>]

SpecBaselines == InitBaselines /\ [][NextShots]_vars

\* one test with any name and one to MaxShots steps, on a page that always
\* looks the same
InitNaming ==
    /\ InitRunner
    /\ allocCtx = TRUE
    /\ config = [FailOnConsoleError |-> TRUE, ErrorFilter |-> "nil"]
    /\ InitSteps
    /\ shotConfig = [UpdateScreenshots |-> FALSE, UpdateSnapshots |-> FALSE,
                     ScreenshotThreshold |-> Fraction(0, 1)]
    /\ files = NoFiles
    /\ screenshotCounter = NoFiles
    /\ snapshotCounter = NoFiles
    /\ renders = {Png(0, 1, 1, <<0>>), Html(<<"a">>)}
    /\ shotTests \in [1..1 -> ShotTests(TestNames, MaxShots)]
    /\ spc = [w \in 1..1 |-> FirstShot(shotTests[w])]
    /\ si = [w \in 1..1 |-> 1]
    /\ shotLog = [w \in 1..1 |-> <<>>]

SpecNaming == InitNaming /\ [][NextShots]_vars

\* one test with a single snapshot step, on a page that can show any
\* text of up to MaxNormLen characters; a.html is absent, or is there from
\* an earlier run with a text of up to MaxBaselineLen characters
InitSnapshots ==
    /\ InitRunner
    /\ allocCtx = TRUE
    /\ config = [FailOnConsoleError |-> TRUE, ErrorFilter |-> "nil"]
    /\ InitSteps
    /\ shotConfig = [UpdateScreenshots |-> FALSE, UpdateSnapshots |-> FALSE,
                     ScreenshotThreshold |-> Fraction(0, 1)]
    /\ \/ files = NoFiles
       \/ \E b \in NormHtmls(MaxBaselineLen) :
             files = WriteFile(NoFiles,
                               Path("snapshot", <<"a">> \o HtmlExt), b)
    /\ screenshotCounter = NoFiles
    /\ snapshotCounter = NoFiles
    /\ renders = NormHtmls(MaxNormLen)
    /\ shotTests = <<[Name |-> <<"a">>,
                      Steps |-> <<[Action |-> "snapshot", Target |-> <<>>,
                                   Value |-> <<>>]>>]>>
    /\ spc = <<"step">>
    /\ si = <<1>>
    /\ shotLog = <<<<>>>>

SpecSnapshots == InitSnapshots /\ [][NextShots]_vars


\* ------------------------------------------------ the parser of test files
\* Parser.ParseString reads the lines of a test file one after the other.
\* strings.HasPrefix(s, prefix)
HasPrefix(s, prefix) ==
    Len(s) >= Len(prefix) /\ SubSeq(s, 1, Len(prefix)) = prefix

\* strings.TrimPrefix(s, prefix)
TrimPrefix(s, prefix) ==
    IF HasPrefix(s, prefix) THEN SubSeq(s, Len(prefix) + 1, Len(s)) ELSE s

RECURSIVE Trim(_, _)
\* strings.Trim(s, cutset): the characters of cutset are taken off both
\* ends
Trim(s, cutset) ==
    IF s # <<>> /\ Head(s) \in cutset THEN Trim(Tail(s), cutset)
    ELSE IF s # <<>> /\ s[Len(s)] \in cutset
    THEN Trim(SubSeq(s, 1, Len(s) - 1), cutset)
    ELSE s

Quotes == {"\"", "'"}

RECURSIVE Fields(_)
\* strings.Fields(s): the words of s between runs of white space
Fields(s) ==
    LET t == TrimLeft(s)
        n == IF \E i \in 1..Len(t) : t[i] \in WhiteSpace
             THEN (CHOOSE i \in 1..Len(t) :
                      /\ t[i] \in WhiteSpace
                      /\ \A k \in 1..(i - 1) : t[k] \notin WhiteSpace) - 1
             ELSE Len(t)
    IN  IF t = <<>> THEN <<>>
        ELSE <<SubSeq(t, 1, n)>> \o Fields(SubSeq(t, n + 1, Len(t)))

RECURSIVE JoinFrom(_, _)
\* strings.Join(parts[i:], " ")
JoinFrom(parts, i) ==
    IF i > Len(parts) THEN <<>>
    ELSE IF i = Len(parts) THEN parts[i]
    ELSE parts[i] \o <<" ">> \o JoinFrom(parts, i + 1)

\* the case labels of the switch in parseLine, as they are spelled
Spelling ==
    [navigate |->
         <<"n", "a", "v", "i", "g", "a", "t", "e">>,
     click |->
         <<"c", "l", "i", "c", "k">>,
     type |->
         <<"t", "y", "p", "e">>,
     wait_for |->
         <<"w", "a", "i", "t", "_", "f", "o", "r">>,
     assert_text |->
         <<"a", "s", "s", "e", "r", "t", "_", "t", "e", "x", "t">>,
     assert_element_exists |->
         <<"a", "s", "s", "e", "r", "t", "_", "e", "l", "e", "m", "e", "n",
         "t", "_", "e", "x", "i", "s", "t", "s">>,
     assert_element_not_exists |->
         <<"a", "s", "s", "e", "r", "t", "_", "e", "l", "e", "m", "e", "n",
         "t", "_", "n", "o", "t", "_", "e", "x", "i", "s", "t", "s">>,
     assert_text_contains |->
         <<"a", "s", "s", "e", "r", "t", "_", "t", "e", "x", "t", "_", "c",
         "o", "n", "t", "a", "i", "n", "s">>,
     assert_url |->
         <<"a", "s", "s", "e", "r", "t", "_", "u", "r", "l">>,
     assert_title |->
         <<"a", "s", "s", "e", "r", "t", "_", "t", "i", "t", "l", "e">>,
     assert_text_visible |->
         <<"a", "s", "s", "e", "r", "t", "_", "t", "e", "x", "t", "_", "v",
         "i", "s", "i", "b", "l", "e">>,
     assert_attribute |->
         <<"a", "s", "s", "e", "r", "t", "_", "a", "t", "t", "r", "i", "b",
         "u", "t", "e">>,
     screenshot |->
         <<"s", "c", "r", "e", "e", "n", "s", "h", "o", "t">>,
     snapshot |->
         <<"s", "n", "a", "p", "s", "h", "o", "t">>,
     wait_for_text |->
         <<"w", "a", "i", "t", "_", "f", "o", "r", "_", "t", "e", "x",
         "t">>,
     wait_for_url |->
         <<"w", "a", "i", "t", "_", "f", "o", "r", "_", "u", "r", "l">>,
     select |->
         <<"s", "e", "l", "e", "c", "t">>,
     check |->
         <<"c", "h", "e", "c", "k">>,
     uncheck |->
         <<"u", "n", "c", "h", "e", "c", "k">>,
     hover |->
         <<"h", "o", "v", "e", "r">>]

\* Parser.parseLine(line, lineNum): the step, or the error. The cases are
\* grouped by the arguments they take: a target; a selector and a value;
\* an optional file name.
parseLine(line, lineNo) ==
    LET TargetCommands ==
            {"navigate", "click", "wait_for", "assert_element_exists",
             "assert_element_not_exists", "assert_url", "assert_title",
             "wait_for_url", "check", "uncheck", "hover"}
        ValueCommands ==
            {"type", "assert_text", "assert_text_contains", "wait_for_text",
             "select"}
        FileCommands == {"screenshot", "snapshot"}
        parts == Fields(line)
        known == { a \in DOMAIN Spelling : Spelling[a] = parts[1] }
        action == CHOOSE a \in known : TRUE
        rest(i) == Trim(JoinFrom(parts, i), Quotes)
        step(target, value) ==
            [step |-> <<[Action |-> action, Target |-> target,
                         Value |-> value]>>,
             err |-> Nil]
        fail(kind) == [step |-> <<>>, err |-> Err(kind, lineNo)]
    IN  IF Len(parts) = 0 THEN [step |-> <<>>, err |-> Nil]
        ELSE IF known = {} THEN fail("unknown action")
        ELSE IF action \in TargetCommands
        THEN IF Len(parts) < 2 THEN fail("requires a target")
             ELSE step(rest(2), <<>>)
        ELSE IF action \in ValueCommands
        THEN IF Len(parts) < 3 THEN fail("requires a selector and value")
             ELSE step(Trim(parts[2], Quotes), rest(3))
        ELSE IF action = "assert_text_visible"
        THEN IF Len(parts) < 2 THEN fail("requires text to search for")
             ELSE step(<<>>, rest(2))
        ELSE IF action = "assert_attribute"
        THEN IF Len(parts) < 4
             THEN fail("requires selector, attribute name, and value")
             ELSE step(Trim(parts[2], Quotes) \o <<"|">>
                           \o Trim(parts[3], Quotes), rest(4))
        ELSE IF action \in FileCommands /\ Len(parts) >= 2
        THEN step(rest(2), <<>>)
        ELSE step(<<>>, <<>>)

\* the lines a test file is made of here: a blank line, a comment, two
\* test lines, two steps, and three lines that parseLine refuses
SampleLines ==
    { <<" ">>,
      <<"#", "c">>,
      <<"t", "e", "s", "t", " ", "a">>,
      <<"t", "e", "s", "t", " ", "\"", "b", "\"">>,
      <<" ", "c", "l", "i", "c", "k", " ", "x">>,
      <<"t", "y", "p", "e", " ", " ", "x", " ", "v", " ", "w">>,
      <<"b", "o", "o">>,
      <<"c", "l", "i", "c", "k">>,
      <<"t", "e", "s", "t">> }

TestPrefix == <<"t", "e", "s", "t", " ">>

\* strings.TrimSpace(scanner.Text()) of the line being read
CurLine == TrimSpace(lines[lineNum + 1])

\* ParseString(content) is called on a file of up to MaxLines lines
InitParse ==
    /\ NewRunner
    /\ config = [FailOnConsoleError |-> TRUE, ErrorFilter |-> "nil"]
    /\ allocCtx = FALSE
    /\ InitSteps
    /\ InitShots
    /\ lines \in UNION { [1..n -> SampleLines] : n \in 0..MaxLines }
    /\ lineNum = 0
    /\ parsed = <<>>
    /\ currentTest = <<>>
    /\ parseErr = Nil
    /\ ppc = "scan"
    /\ NoBands

\* what the parser leaves alone
nonParseVars ==
    <<config, allocCtx, tests, chanVars, wg, mainVars, pcCloser, workerVars,
      now, ghostVars, sessVars, stepVars, shotVars, progVars, bandVars>>

\* for scanner.Scan(): a blank line or a comment; continue
SkipLine ==
    /\ ppc = "scan"
    /\ lineNum < Len(lines)
    /\ CurLine = <<>> \/ HasPrefix(CurLine, <<"#">>)
    /\ lineNum' = lineNum + 1
    /\ UNCHANGED <<nonParseVars, lines, parsed, currentTest, parseErr, ppc>>

\* for scanner.Scan(): a line that begins with "test ": the test under
\* way is appended to tests and a new one is begun
TestLine ==
    /\ ppc = "scan"
    /\ lineNum < Len(lines)
    /\ HasPrefix(CurLine, TestPrefix)
    /\ lineNum' = lineNum + 1
    /\ parsed' = parsed \o currentTest
    /\ currentTest' =
          <<[Name |-> Trim(TrimPrefix(CurLine, TestPrefix), Quotes),
             Steps |-> <<>>]>>
    /\ UNCHANGED <<nonParseVars, lines, parseErr, ppc>>

\* faulty variant,the new step is put before the steps already there
StepLine_Prepend ==
    /\ ppc = "scan"
    /\ lineNum < Len(lines)
    /\ CurLine # <<>>
    /\ ~HasPrefix(CurLine, <<"#">>)
    /\ ~HasPrefix(CurLine, TestPrefix)
    /\ lineNum' = lineNum + 1
    /\ LET r == parseLine(CurLine, lineNum + 1)
       IN  IF currentTest = <<>>
           THEN UNCHANGED <<parsed, currentTest, parseErr, ppc>>
           ELSE IF r.err # Nil
           THEN /\ parsed' = <<>>
                /\ parseErr' = r.err
                /\ ppc' = "done"
                /\ UNCHANGED currentTest
           ELSE /\ currentTest' =
                      <<[currentTest[1] EXCEPT !.Steps = r.step \o @]>>
                /\ UNCHANGED <<parsed, parseErr, ppc>>
    /\ UNCHANGED <<nonParseVars, lines>>

\* for scanner.Scan(): any other line: outside a test it is passed over;
\* inside a test parseLine makes a step of it, which is appended to the
\* test's steps, or returns an error, with which the parse ends
StepLine ==
    /\ ppc = "scan"
    /\ lineNum < Len(lines)
    /\ CurLine # <<>>
    /\ ~HasPrefix(CurLine, <<"#">>)
    /\ ~HasPrefix(CurLine, TestPrefix)
    /\ lineNum' = lineNum + 1
    /\ LET r == parseLine(CurLine, lineNum + 1)
       IN  IF currentTest = <<>>
           THEN UNCHANGED <<parsed, currentTest, parseErr, ppc>>
           ELSE IF r.err # Nil
           THEN /\ parsed' = <<>>
                /\ parseErr' = r.err
                /\ ppc' = "done"
                /\ UNCHANGED currentTest
           ELSE /\ currentTest' =
                      <<[currentTest[1] EXCEPT !.Steps = @ \o r.step]>>
                /\ UNCHANGED <<parsed, parseErr, ppc>>
    /\ UNCHANGED <<nonParseVars, lines>>

\* the file is read: the test under way is appended; return tests, nil
ParseEnd ==
    /\ ppc = "scan"
    /\ lineNum = Len(lines)
    /\ parsed' = parsed \o currentTest
    /\ ppc' = "done"
    /\ UNCHANGED <<nonParseVars, lines, lineNum, currentTest, parseErr>>

NextParse ==
    \/ SkipLine
    \/ TestLine
    \/ StepLine
    \/ ParseEnd

SpecParse == InitParse /\ [][NextParse]_vars

\* ------------------------------------------ a test file, parsed and run
\* main parses a test file, adds its tests to the runner, and runTest
\* executes the steps the parser made. The files here hold one test with
\* one command line, after a blank line or not; the command is each
\* command of the parser with no to three arguments, and assert_attribute
\* with selectors and attribute names that hold a '|'.
FileLines ==
    LET with(args) == { <<" ">> \o args[1] \o args[2] \o args[3] }
        plain ==
            { <<<<>>, <<>>, <<>>>>,
              <<<<"s">>, <<>>, <<>>>>,
              <<<<"s">>, <<" ", "a">>, <<>>>>,
              <<<<"s">>, <<" ", "a">>, <<" ", "v">>>> }
        barred ==
            { <<sel, <<" ">> \o attr, <<" ", "v">>>> :
                sel \in {<<"s">>, <<"s", "|", "t">>, <<"|">>},
                attr \in {<<"a">>, <<"a", "|", "b">>} }
    IN  { Spelling[c] \o args[1] \o args[2] \o args[3] :
            c \in DOMAIN Spelling,
            args \in { <<IF a[1] = <<>> THEN <<>> ELSE <<" ">> \o a[1],
                         a[2], a[3]>> : a \in plain } }
        \cup
        { Spelling["assert_attribute"] \o <<" ">> \o a[1] \o a[2] \o a[3] :
            a \in barred }

InitFile ==
    /\ NewRunner
    /\ NoBands
    /\ config = [FailOnConsoleError |-> TRUE, ErrorFilter |-> "nil"]
    /\ allocCtx = TRUE
    /\ InitSteps
    /\ InitShots
    /\ lines \in { <<TestPrefix \o <<"a">>, line>> : line \in FileLines }
                 \cup { <<TestPrefix \o <<"a">>, <<" ">>, line>> :
                          line \in FileLines }
    /\ lineNum = 0
    /\ parsed = <<>>
    /\ currentTest = <<>>
    /\ parseErr = Nil
    /\ ppc = "scan"

\* runner.AddTest(test) for the tests parsed; runTest enters the step
\* loop of the first test
LoadParsed ==
    /\ ppc = "done"
    /\ parseErr = Nil
    /\ parsed # <<>>
    /\ tpc = "none"
    /\ timedSteps' = parsed[1].Steps
    /\ ti' = 1
    /\ tpc' = IF parsed[1].Steps = <<>> THEN "verdict" ELSE "steps"
    /\ UNCHANGED <<runnerVars, shotVars, now, timeout, deadline, ticker,
                   tlog, terr>>

NextFile ==
    \/ SkipLine
    \/ TestLine
    \/ StepLine
    \/ ParseEnd
    \/ LoadParsed
    \/ Dispatch
    \/ ReturnTimed

SpecFile == InitFile /\ [][NextFile]_vars

\* ------------------------------------- the full pass of compareImages
\* compareImages has found a sampled pixel that differs and has started
\* the compareWorkers goroutines of the full pass. Each goroutine counts
\* the differing pixels of its rows in localDiff and adds it to
\* differentPixels between mu.Lock() and mu.Unlock(); wg.Wait() returns
\* when all have done so. The baseline is a blank image one or two pixels
\* wide and at most MaxBandHeight pixels high.
InitBands ==
    /\ NewRunner
    /\ NoParse
    /\ config = [FailOnConsoleError |-> TRUE, ErrorFilter |-> "nil"]
    /\ allocCtx = TRUE
    /\ InitSteps
    /\ InitShots
    /\ cmpImages \in
          UNION { { [b |-> [w |-> w, h |-> h, px |-> [i \in 1..(w * h) |-> 0]],
                     c |-> [w |-> w, h |-> h, px |-> px]] :
                      px \in { q \in [1..(w * h) -> {0, 1}] : q[1] = 1 } } :
                  w \in 1..2, h \in 1..MaxBandHeight }
    /\ bandsDone = {}
    /\ differentPixels = 0
    /\ cpc = "scan"

nonBandVars ==
    <<config, allocCtx, tests, chanVars, wg, mainVars, pcCloser, workerVars,
      now, ghostVars, sessVars, stepVars, shotVars, progVars, parseVars>>

\* mu.Lock(); differentPixels += localDiff; mu.Unlock(); wg.Done()
BandAdd(w) ==
    /\ cpc = "scan"
    /\ w \notin bandsDone
    /\ differentPixels' =
           differentPixels + LocalDiff(w, cmpImages.b, cmpImages.c)
    /\ bandsDone' = bandsDone \cup {w}
    /\ UNCHANGED <<nonBandVars, cmpImages, cpc>>

\* wg.Wait() returns; compareImages returns differentPixels / totalPixels
BandsJoin ==
    /\ cpc = "scan"
    /\ bandsDone = 0..(compareWorkers - 1)
    /\ cpc' = "returned"
    /\ UNCHANGED <<nonBandVars, cmpImages, bandsDone, differentPixels>>

NextBands ==
    \/ \E w \in 0..(compareWorkers - 1) : BandAdd(w)
    \/ BandsJoin

SpecBands == InitBands /\ [][NextBands]_vars

\* ------------------------------------------------------------ properties
Done == pcMain = "done"

NameSet == { Names[i] : i \in 1..Len(Names) }

\* the TestResults that have left runTest's worker: on the result channel
\* or already collected
Emitted ==
    { resultChan[i] : i \in 1..Len(resultChan) } \cup
    { results[i] : i \in 1..Len(results) }

\* the result's test got a session and entered its step loop
Ran(r) ==
    r.Error.kind \notin {"browser not started", "failed to initialize browser"}

\* the executeStep calls of test t that returned an error
Failures(t) == { i \in 1..Len(executed[t]) : executed[t][i].err # Nil }

FirstFailure(t) == CHOOSE i \in Failures(t) : \A j \in Failures(t) : i <= j

\* every step of test t was executed and succeeded
AllStepsOk(t) ==
    /\ Len(executed[t]) = Len(tests[t].Steps)
    /\ Failures(t) = {}

\* the step loop of test t ran to its end: through all steps, or up to the
\* first failing one
LoopComplete(t) ==
    \/ AllStepsOk(t)
    \/ /\ Failures(t) # {}
       /\ Len(executed[t]) = FirstFailure(t)

\* C1: when Run returns it has exactly one result per submitted test: as
\* many results as tests, every test has a result of its own carrying its
\* name, and every name occurs among the results as often as among the
\* tests, in any order; also when more tests than workers were submitted.
C1_OneResultPerTest ==
    Done =>
        /\ Len(results) = Len(tests)
        /\ \A t \in 1..Len(tests) :
              \E i \in 1..Len(results) :
                  results[i].idx = t /\ results[i].Name = tests[t].Name
        /\ \A n \in NameSet :
              Cardinality({ i \in 1..Len(results) : results[i].Name = n })
                = Cardinality({ i \in 1..Len(tests) : tests[i].Name = n })

\* Run has returned the results of more tests than there are workers, and
\* not in the order of submission: the first test finished last
C1_Witness ==
    /\ Done
    /\ Len(tests) > numWorkers
    /\ Len(results) = Len(tests)
    /\ results[1].idx = numWorkers
    /\ results[Len(results)].idx = 1

\* C2: Run always terminates: once Run has started it eventually returns
\* (no worker, nor the goroutine closing the result channel, nor the
\* collecting loop stays blocked), and with zero tests it returns an empty
\* result list.
C2_RunTerminates ==
    /\ (pcMain = "enqueue") ~> Done
    /\ [](Done /\ tests = <<>> => results = <<>>)

\* Run has returned although fewer tests than workers were submitted: all
\* workers, the idle ones included, have left their loop
C2_Witness ==
    /\ Done
    /\ Len(tests) = 1
    /\ Len(tests) < numWorkers
    /\ wg = 0
    /\ idle = 0
    /\ pcCloser = "done"

\* C3: within one test the steps executed are a prefix of test.Steps in
\* submission order, and only the last executed step can have failed; once
\* the loop has ended, the prefix ends at the first failing step or is the
\* whole list.
C3_StepsArePrefix ==
    \A t \in 1..Len(tests) :
        /\ Len(executed[t]) <= Len(tests[t].Steps)
        /\ \A i \in 1..Len(executed[t]) :
              /\ executed[t][i].step = i
              /\ i < Len(executed[t]) => executed[t][i].err = Nil
        /\ pc[t] \in {"verdict", "return"} => LoopComplete(t)

\* a two-step test has finished after its first step failed, and its
\* second step was not executed
C3_Witness ==
    \E r \in Emitted :
        /\ Len(tests[r.idx].Steps) = 2
        /\ Len(executed[r.idx]) = 1
        /\ executed[r.idx][1].err # Nil

\* C4: if a step of a test failed, the test's result has Passed = false
\* and Error = the error of the first failing step, also when console
\* errors were captured under FailOnConsoleError.
C4_StepErrorIsPrimary ==
    \A r \in Emitted :
        Failures(r.idx) # {} =>
            /\ r.Passed = FALSE
            /\ r.Error = executed[r.idx][FirstFailure(r.idx)].err

\* a result of a test with a failed step and a captured console error,
\* under FailOnConsoleError
C4_Witness ==
    \E r \in Emitted :
        /\ config.FailOnConsoleError
        /\ Failures(r.idx) # {}
        /\ Len(r.Errors) > 0
        /\ r.Error.kind = "step"

\* C5: a step failure in one test does not abort its siblings: when Run
\* returns, every submitted test has its own result, and every test that
\* got a session has run its own step loop to the end (all its steps, or
\* up to its own first failure).
C5_SiblingsUnaffected ==
    Done =>
        \A t \in 1..Len(tests) :
            \E i \in 1..Len(results) :
                /\ results[i].idx = t
                /\ results[i].Name = tests[t].Name
                /\ Ran(results[i]) => LoopComplete(t)

\* Run has returned; the first test failed at its first step and the
\* second test executed both of its steps with success
C5_Witness ==
    /\ Done
    /\ Len(tests) = 2
    /\ Failures(1) = {1}
    /\ Len(tests[2].Steps) = 2
    /\ AllStepsOk(2)
    /\ \E i \in 1..Len(results) : results[i].idx = 2 /\ results[i].Error = Nil

\* the console events of test t that were error-level
ErrorEvents(t) ==
    { i \in 1..Len(delivered[t]) : delivered[t][i].Type = "error" }

\* C6: every emitted TestResult has Passed = false whenever Error is
\* present and, under FailOnConsoleError, whenever its console-error list
\* is non-empty, for every interleaving of the console listener with the
\* step loop, the verdict check and the return of the result.
C6_PassedInvariant ==
    \A r \in Emitted :
        /\ r.Error # Nil => r.Passed = FALSE
        /\ config.FailOnConsoleError /\ Len(r.Errors) > 0 => r.Passed = FALSE

\* C7: with FailOnConsoleError = true and no ErrorFilter, the result of a
\* test that captured at least one error-level console event has
\* Passed = false, also when every step succeeded.
C7_ConsoleErrorFails ==
    config.FailOnConsoleError /\ config.ErrorFilter = "nil" =>
        \A r \in Emitted :
            (\E i \in 1..Len(r.Errors) : r.Errors[i].Type = "error") =>
                r.Passed = FALSE

\* C8: no console error for which ErrorFilter returns true is ever in a
\* test's console-error list; with a filter that returns true for every
\* error, a test that got a session and whose steps all succeeded ends
\* with an empty list and Passed = true.
C8_FilteredNeverAppended ==
    /\ \A t \in 1..Len(tests) : \A i \in 1..Len(result[t].Errors) :
          config.ErrorFilter = "nil"
            \/ ~ErrorFilter(config.ErrorFilter, result[t].Errors[i])
    /\ \A r \in Emitted :
          /\ \A i \in 1..Len(r.Errors) :
                config.ErrorFilter = "nil"
                  \/ ~ErrorFilter(config.ErrorFilter, r.Errors[i])
          /\ config.ErrorFilter = "all" /\ Ran(r) /\ AllStepsOk(r.idx) =>
                r.Errors = <<>> /\ r.Passed = TRUE

\* under FailOnConsoleError and a filter that suppresses every error, a
\* test whose steps all succeeded received an error-level console event
\* and still passed with an empty list
C8_Witness ==
    \E r \in Emitted :
        /\ config.FailOnConsoleError
        /\ config.ErrorFilter = "all"
        /\ Len(tests[r.idx].Steps) > 0
        /\ AllStepsOk(r.idx)
        /\ ErrorEvents(r.idx) # {}
        /\ r.Errors = <<>>
        /\ r.Passed = TRUE

\* C9: when Run is called on a Runner that was never started, no session
\* is opened, no step is executed, every result has Passed = false and the
\* 'browser not started' error, and Run returns one result per test.
C9_NotStarted ==
    pcMain # "setup" /\ ~allocCtx =>
        /\ opened = 0
        /\ \A t \in 1..Len(tests) : executed[t] = <<>>
        /\ \A r \in Emitted :
              /\ r.Passed = FALSE
              /\ r.Error = Err("browser not started", 0)
        /\ Done =>
              /\ Len(results) = Len(tests)
              /\ \A t \in 1..Len(tests) :
                    \E i \in 1..Len(results) : results[i].idx = t

\* Run has returned two results on a Runner that was never started
C9_Witness ==
    /\ Done
    /\ ~allocCtx
    /\ Len(tests) = 2
    /\ Len(results) = 2
    /\ \E i \in 1..2 : Len(tests[i].Steps) > 0

\* C10 as stated: every test with zero steps yields a result with
\* Passed = true and Duration >= 0.
C10_ZeroStepsPass ==
    \A r \in Emitted :
        Len(tests[r.idx].Steps) = 0 => r.Passed = TRUE /\ r.Duration >= 0

\* C10 (amended): every test with zero steps yields a result with
\* Duration >= 0, and with Passed = true unless the Runner was not started,
\* the session failed to initialise, or FailOnConsoleError is set and a
\* console error was in the list at the end-of-test check.
C10_ZeroStepsVerdict ==
    \A r \in Emitted :
        Len(tests[r.idx].Steps) = 0 =>
            /\ r.Duration >= 0
            /\ r.Passed = FALSE =>
                  \/ r.Error = Err("browser not started", 0) /\ ~allocCtx
                  \/ r.Error = Err("failed to initialize browser", 0)
                  \/ /\ r.Error.kind = "console"
                     /\ config.FailOnConsoleError
                     /\ r.Errors # <<>>

\* a zero-step test passed after measurable time
C10_Witness ==
    \E r \in Emitted :
        /\ Len(tests[r.idx].Steps) = 0
        /\ r.Passed = TRUE
        /\ r.Duration > 0

\* C11: each test run opens a browser context of its own: at no time have
\* two tests been given the same context, neither two tests that run at
\* the same time nor a test and one that ran before it, and the open
\* contexts are exactly those of the tests inside runTest.
C11_OwnSession ==
    /\ \A t, u \in 1..Len(tests) :
          t # u /\ ctx[t] # 0 /\ ctx[u] # 0 => ctx[t] # ctx[u]
    /\ \A t \in 1..Len(tests) :
          pc[t] \in {"init", "steps", "verdict", "return"} =>
              ctx[t] # 0 /\ ctx[t] \in sessions

\* one test has returned its result and its context is closed while the
\* other test, which opened a context too, is in its step loop
C11_Witness ==
    /\ Len(tests) = 2
    /\ pc[1] = "done"
    /\ ctx[1] # 0
    /\ pc[2] = "steps"
    /\ sessions = {ctx[2]}

\* C12: every browser context opened for a test is released on every exit
\* path of runTest (all steps passed, a step failed, the initialisation
\* failed): a test that has left runTest holds no open context, and when
\* Run returns no context is open.
C12_SessionsReleased ==
    /\ \A t \in 1..Len(tests) :
          pc[t] \in {"send", "done"} => ctx[t] \notin sessions
    /\ Done => sessions = {}

\* Run has returned after two contexts were opened: one test failed to
\* initialise its context and the other failed in a step
C12_Witness ==
    /\ Done
    /\ opened = 2
    /\ sessions = {}
    /\ \E i \in 1..2 : results[i].Error.kind = "failed to initialize browser"
    /\ \E i \in 1..2 : results[i].Error.kind = "step"

\* the entries of tlog for wait_for_url steps that have returned
URLWaits ==
    { i \in 1..Len(tlog) :
        tlog[i].action = "wait_for_url" /\ tlog[i].err # Pending }

\* C13: each action other than wait_for_url applies the configured timeout
\* to its own protocol round trip, a fresh timeout per step, and does not
\* share one budget with the rest of the test: a round trip that is ended
\* by the timeout has lasted the configured timeout.
C13_FreshTimeoutPerStep ==
    \A i \in 1..Len(tlog) :
        tlog[i].action # "wait_for_url" /\ tlog[i].err = DeadlineExceeded =>
            tlog[i].end - tlog[i].begin >= timeout

\* C14: wait_for_url always terminates; it succeeds at the first poll that
\* observes a URL containing the target and never without such a poll, and
\* otherwise returns its timeout error, once the deadline fixed when the
\* test's context was made has passed; the number of polls is bounded by
\* the deadline only.
C14_WaitForURLTerminates ==
    /\ (tpc \in {"loop", "poll", "select"}) ~> (tpc \in {"steps", "verdict"})
    /\ [](\A i \in URLWaits :
            LET e == tlog[i]
                n == Len(e.polls)
            IN  /\ e.err \in {Nil, URLTimeout}
                /\ e.err = Nil =>
                      /\ n > 0
                      /\ e.polls[n] = "match"
                      /\ \A j \in 1..(n - 1) : e.polls[j] # "match"
                /\ e.err = URLTimeout =>
                      /\ \A j \in 1..n : e.polls[j] # "match"
                      /\ e.end >= deadline)

\* a wait_for_url step succeeded at its third poll, after two polls that
\* saw another URL, and a second wait_for_url step ran into the deadline
C14_Witness ==
    /\ Len(tlog) = 2
    /\ tlog[1].action = "wait_for_url"
    /\ tlog[1].err = Nil
    /\ tlog[1].polls = <<"nomatch", "nomatch", "match">>
    /\ tlog[2].action = "wait_for_url"
    /\ tlog[2].err = URLTimeout
    /\ tlog[2].polls # <<>>

\* the steps of the screenshot and snapshot tests that have returned
Shots ==
    { <<w, i>> \in (1..Len(shotLog)) \X (1..MaxShots) :
        i <= Len(shotLog[w]) /\ shotLog[w][i].err # Pending }

\* the name with every space, slash and backslash turned into '_'
Sanitized(name) ==
    [i \in 1..Len(name) |->
        IF name[i] \in {" ", "/", "\\"} THEN "_" ELSE name[i]]

\* how many of the first i steps of test w are screenshots without a
\* file name
AutoShots(w, i) ==
    Cardinality({ j \in 1..i :
        shotLog[w][j].action = "screenshot" /\ shotLog[w][j].target = <<>> })

\* C15: a screenshot step with a file name uses it verbatim; without one
\* the file is named after the test, every space, '/' and '\' replaced by
\* '_', followed by '.png' for the first such screenshot of the test name
\* and by '_N.png' for the N-th.
C15_ScreenshotNaming ==
    \A w \in 1..Len(shotLog) : \A i \in 1..Len(shotLog[w]) :
        LET e == shotLog[w][i]
            n == AutoShots(w, i)
        IN  e.action = "screenshot" =>
                e.filename =
                    IF e.target # <<>> THEN e.target
                    ELSE IF n = 1 THEN Sanitized(e.testName) \o PngExt
                    ELSE Sanitized(e.testName) \o <<"_", Digits[n + 1]>>
                             \o PngExt

\* the test named 'a ' has taken two screenshots without a file name:
\* a_.png and a__2.png
C15_Witness ==
    /\ Len(shotLog) = 1
    /\ Len(shotLog[1]) = 2
    /\ shotLog[1][1].testName = <<"a", " ">>
    /\ shotLog[1][1].filename = <<"a", "_", ".", "p", "n", "g">>
    /\ shotLog[1][1].err = Nil
    /\ shotLog[1][2].filename = <<"a", "_", "_", "2", ".", "p", "n", "g">>
    /\ shotLog[1][2].err = Nil

C17_BaselineNeverRewritten ==
    ~shotConfig.UpdateScreenshots /\ ~shotConfig.UpdateSnapshots =>
        \A s \in Shots : ~shotLog[s[1]][s[2]].overwrote

\* C18: with UpdateScreenshots set, a screenshot step that finds a baseline
\* puts its capture in the baseline's place and succeeds instead of
\* comparing and failing; likewise a snapshot step with UpdateSnapshots.
C18_UpdateFlagUpdates ==
    \A s \in Shots :
        LET e == shotLog[s[1]][s[2]]
            update == IF e.action = "screenshot"
                      THEN shotConfig.UpdateScreenshots
                      ELSE shotConfig.UpdateSnapshots
        IN  update /\ e.found =>
                /\ e.err = Nil
                /\ e.path \in e.written \/ e.baseline = e.data

\* C19: for two images of the same size compareImages returns the number
\* of pixels that differ divided by the number of pixels, so that with
\* threshold 0.0 a capture differing from the baseline in one pixel makes
\* the screenshot step fail.
C19_DifferenceIsFraction ==
    \A s \in Shots :
        LET e == shotLog[s[1]][s[2]]
            b == Decode(e.baseline)
            c == Decode(e.data)
            d == compareImages(e.baseline, e.data).diff
        IN  e.action = "screenshot" /\ e.compared /\ b.w = c.w /\ b.h = c.h =>
                /\ d[1] * (b.w * b.h) = Cardinality(Mismatches(b, c)) * d[2]
                /\ shotConfig.ScreenshotThreshold = Fraction(0, 1)
                   /\ Mismatches(b, c) # {} => e.err # Nil

\* C20: compareImages on two byte-identical images returns difference 0
\* and no diff image, and a screenshot step whose capture is byte-identical
\* to its baseline succeeds and writes no .actual or .diff file.
C20_IdenticalPasses ==
    \A s \in Shots :
        LET e == shotLog[s[1]][s[2]]
            cmp == compareImages(e.baseline, e.data)
        IN  e.action = "screenshot" /\ e.compared /\ e.baseline = e.data =>
                /\ cmp.diff[1] = 0
                /\ cmp.diffImage = NoImage
                /\ cmp.err = Nil
                /\ e.err = Nil
                /\ e.written = {}

\* with threshold 0 a screenshot step has compared a capture of two
\* pixels with a baseline of the same bytes, and has succeeded
C20_Witness ==
    \E s \in Shots :
        LET e == shotLog[s[1]][s[2]]
        IN  /\ e.action = "screenshot"
            /\ e.compared
            /\ e.baseline = e.data
            /\ e.data.w = 2
            /\ shotConfig.ScreenshotThreshold = Fraction(0, 1)
            /\ e.err = Nil

\* C21: compareImages on two images that decode and whose dimensions
\* differ returns the difference 1.0 and no diff image, and reads no pixel
\* of either image.
C21_SizeMismatchIsOne ==
    \A s \in Shots :
        LET e == shotLog[s[1]][s[2]]
            cmp == compareImages(e.baseline, e.data)
            sizesDiffer == e.baseline.w # e.data.w \/ e.baseline.h # e.data.h
        IN  (e.action = "screenshot" /\ e.compared
                /\ e.baseline.type = "png" /\ sizesDiffer) =>
                    /\ cmp = [diff |-> Fraction(1, 1), diffImage |-> NoImage,
                              err |-> Nil]
                    /\ Scanned(e.baseline, e.data) = {}

\* a capture of two pixels has been compared with a baseline of one pixel
C21_Witness ==
    \E s \in Shots :
        LET e == shotLog[s[1]][s[2]]
        IN  /\ e.action = "screenshot"
            /\ e.compared
            /\ e.baseline.type = "png"
            /\ e.baseline.w = 1
            /\ e.data.w = 2
            /\ e.err # Nil

\* strings.TrimSuffix(path, ".png") + ".actual.png" and the same with
\* ".diff", for both kinds of step
ActualPath(action, path) ==
    TrimSuffix(path, Ext(action)) \o <<".actual">> \o Ext(action)

DiffPath(action, path) ==
    TrimSuffix(path, Ext(action)) \o <<".diff">> \o Ext(action)

\* the steps that have failed because the capture differs from the
\* baseline
Differing ==
    { s \in Shots :
        shotLog[s[1]][s[2]].err.kind \in
            {"screenshot differs from baseline",
             "snapshot differs from baseline"} }

\* the error of step e names the baseline path and, for a screenshot, the
\* difference and the threshold as percentages
NamesBaseline(e) ==
    /\ e.err.path = e.path
    /\ e.action = "screenshot" =>
          /\ e.err.diff = Percent(compareImages(e.baseline, e.data).diff)
          /\ e.err.threshold = Percent(shotConfig.ScreenshotThreshold)

\* C22: whenever a screenshot step fails because the difference exceeds
\* the threshold, both <stem>.actual.png and <stem>.diff.png have been
\* written beside the baseline, the baseline is unchanged and the error
\* names the percentage difference, the threshold and the baseline path;
\* likewise a failing snapshot step with .actual.html and .diff.html.
C22_ArtifactsOnFailure ==
    \A s \in Differing :
        LET e == shotLog[s[1]][s[2]]
        IN  /\ ActualPath(e.action, e.path) \in e.written
            /\ DiffPath(e.action, e.path) \in e.written
            /\ e.path \notin e.written
            /\ NamesBaseline(e)

\* C22, amended: a screenshot step that fails because the difference
\* exceeds the threshold has written <stem>.actual.png, and
\* <stem>.diff.png too unless the two images differ in size; a failing
\* snapshot step has written .actual.html and .diff.html. The step leaves
\* the baseline as it was, and its error names the baseline path and, for
\* a screenshot, the percentage difference and the threshold.
C22_ArtifactsUnlessSizesDiffer ==
    /\ [](\A s \in Differing :
            LET e == shotLog[s[1]][s[2]]
                sizesDiffer == /\ e.action = "screenshot"
                               /\ \/ e.baseline.w # e.data.w
                                  \/ e.baseline.h # e.data.h
            IN  /\ e.written =
                      IF sizesDiffer THEN {ActualPath(e.action, e.path)}
                      ELSE {ActualPath(e.action, e.path),
                            DiffPath(e.action, e.path)}
                /\ NamesBaseline(e))
    /\ [][\A w \in 1..Len(shotLog) :
            spc[w] = "compare" /\ spc'[w] # "compare" =>
                LET e == shotLog'[w][Len(shotLog'[w])]
                IN  /\ files'[e.path] = files[e.path]
                    /\ \A p \in e.written : Exists(files', p)
                    /\ e.err # Nil =>
                          files'[ActualPath(e.action, e.path)] = e.data]_vars

\* with threshold 0 a screenshot step has failed on a capture that
\* differs from its baseline of the same size in one of two pixels; both
\* files are there and the error names 50.00%
C22_Witness ==
    \E s \in Differing :
        LET e == shotLog[s[1]][s[2]]
        IN  /\ e.action = "screenshot"
            /\ e.baseline.w = 2
            /\ e.data.w = 2
            /\ e.err.diff = 5000
            /\ e.err.threshold = 0
            /\ e.written = {ActualPath(e.action, e.path),
                            DiffPath(e.action, e.path)}
            /\ Exists(files, DiffPath(e.action, e.path))
            /\ files[e.path] = e.baseline

\* the snapshot steps that have compared their capture with a baseline
ComparedSnapshots ==
    { s \in Shots : /\ shotLog[s[1]][s[2]].action = "snapshot"
                    /\ shotLog[s[1]][s[2]].compared }

\* C23: HTML normalization is idempotent: normalizeHTML(normalizeHTML(x))
\* = normalizeHTML(x) for every text x that a snapshot step normalizes,
\* and the texts of a .diff.html page, which are normalized, are left as
\* they are by normalizeHTML.
C23_NormalizeIdempotent ==
    /\ \A s \in ComparedSnapshots :
          \A x \in {shotLog[s[1]][s[2]].baseline.text,
                    shotLog[s[1]][s[2]].data.text} :
              normalizeHTML(normalizeHTML(x)) = normalizeHTML(x)
    /\ \A p \in DOMAIN files :
          files[p].type = "htmldiff" =>
              /\ normalizeHTML(files[p].expected) = files[p].expected
              /\ normalizeHTML(files[p].actual) = files[p].actual

\* a snapshot step has compared the capture '>  a', which normalization
\* changes to '>a', with the baseline 'a'
C23_Witness ==
    \E s \in ComparedSnapshots :
        LET e == shotLog[s[1]][s[2]]
        IN  /\ e.data.text = <<">", " ", " ", "a">>
            /\ e.baseline.text = <<"a">>
            /\ Exists(files, DiffPath("snapshot", e.path))
            /\ files[DiffPath("snapshot", e.path)].actual = <<">", "a">>

\* the text with every newline, carriage return and tab turned into a
\* space
Blanked(s) ==
    [i \in 1..Len(s) |-> IF s[i] \in {"\n", "\r", "\t"} THEN " " ELSE s[i]]

\* the space at place i of the blanked text b stays: it is the first of
\* its run, the run follows a character other than '>' and is followed by
\* a character other than '<'
SpaceStays(b, i) ==
    /\ i > 1
    /\ b[i - 1] \notin {" ", ">"}
    /\ \E j \in (i + 1)..Len(b) :
          /\ b[j] \notin {" ", "<"}
          /\ \A k \in (i + 1)..(j - 1) : b[k] = " "

RECURSIVE Pick(_, _, _)
\* the characters of s at the places of keep, from place i on
Pick(s, keep, i) ==
    IF i > Len(s) THEN <<>>
    ELSE (IF i \in keep THEN <<s[i]>> ELSE <<>>) \o Pick(s, keep, i + 1)

\* the text with every run of white space collapsed to one space, the
\* spaces after '>' and before '<' removed and the ends trimmed
Normal(s) ==
    LET b == Blanked(s)
    IN  Pick(b, { i \in 1..Len(b) : b[i] # " " \/ SpaceStays(b, i) }, 1)

\* C24: a snapshot step with an existing baseline succeeds if and only if
\* the normalized baseline equals the normalized capture, normalization
\* collapsing every run of spaces, newlines and tabs to one space,
\* removing the spaces next to tag boundaries and trimming the ends; any
\* other difference fails the step.
C24_SnapshotIffNormalEqual ==
    \A s \in ComparedSnapshots :
        LET e == shotLog[s[1]][s[2]]
        IN  /\ normalizeHTML(e.baseline.text) = Normal(e.baseline.text)
            /\ normalizeHTML(e.data.text) = Normal(e.data.text)
            /\ e.err = Nil <=> Normal(e.baseline.text) = Normal(e.data.text)
            /\ e.err = Nil => e.written = {}
            /\ e.err # Nil => e.err = SnapshotDiffers(e.path)

\* the capture '> \n<' has been compared with the baseline '><' and the
\* step has succeeded
C24_Witness ==
    \E s \in ComparedSnapshots :
        LET e == shotLog[s[1]][s[2]]
        IN  /\ e.baseline.text = <<">", "<">>
            /\ e.data.text = <<">", " ", "\n", "<">>
            /\ e.err = Nil

\* RunWithProgress has returned to its caller
Returned == pcMain \in {"returned", "done"}

\* C25: RunWithProgress sends every TestResult exactly once on the given
\* channel, each as soon as it has been collected, and returns a slice
\* with the same N results; it returns only after all N have been sent.
C25_EveryResultForwarded ==
    /\ Len(received) <= Len(results)
    /\ Len(results) <= Len(received) + 1
    /\ \A i \in 1..Len(received) : received[i] = results[i]
    /\ Returned =>
          /\ Len(results) = Len(tests)
          /\ received = results
          /\ \A t \in 1..Len(tests) :
                Cardinality({ i \in 1..Len(received) :
                                received[i].idx = t
                                /\ received[i].Name = tests[t].Name }) = 1

\* RunWithProgress has returned the results of three tests, sent in the
\* order in which they were collected: the third test first
C25_Witness ==
    /\ pcMain = "returned"
    /\ Len(tests) = 3
    /\ Len(received) = 3
    /\ received = results
    /\ received[1].idx = 3
    /\ handled = 2

\* C26: the caller's WaitGroup is incremented before each result is sent,
\* so that with a consumer calling wg.Done() once per result the counter
\* never goes negative, and the wg.Wait() after RunWithProgress returns
\* only after the consumer has handled all N results, and does return.
C26_WaitCoversConsumer ==
    /\ [](uiWg >= 0)
    /\ [](uiWg = Len(received) - handled
                   + (IF pcMain = "send" THEN 1 ELSE 0))
    /\ [](Done => handled = Len(tests) /\ pcConsumer = "recv")
    /\ (pcMain = "returned") ~> Done

\* wg.Wait() has returned after the consumer handled the results of three
\* tests
C26_Witness ==
    /\ Done
    /\ Len(tests) = 3
    /\ handled = 3
    /\ uiWg = 0
    /\ Len(received) = 3

\* TestBuilder.Run: tb.runner.AddTest(tb.test) makes the builder's test
\* the last of r.tests; after Run the first of the results is returned,
\* or a failed result with ErrNoTestResults when there is none
TestBuilderRun ==
    IF Len(results) > 0 THEN results[1]
    ELSE [NewResult(Len(tests), tests[Len(tests)].Name) EXCEPT
              !.Passed = FALSE, !.Error = Err("no test results", 0)]

\* C27: TestBuilder.Run returns the result of the test the builder
\* describes, with that test's name, also when other tests were added to
\* the same Runner before.
C27_BuilderGetsOwnResult ==
    Done /\ Len(tests) >= 1 =>
        /\ TestBuilderRun.idx = Len(tests)
        /\ TestBuilderRun.Name = tests[Len(tests)].Name

\* C28: a step whose action is not one of the known kinds fails with an
\* 'unknown action' error and makes no browser call, and it fails its
\* test at that step like any other failing step: the error becomes the
\* test's error and the later steps are not executed.
C28_UnknownActionFails ==
    \A i \in 1..Len(tlog) :
        tlog[i].step.Action \notin KnownActions =>
            /\ tlog[i].err = UnknownAction(tlog[i].step.Action)
            /\ tlog[i].calls = <<>>
            /\ i = Len(tlog)
            /\ tpc \in {"verdict", "done"}
            /\ terr = tlog[i].err

\* the first of two steps had an unknown action; runTest has left the
\* loop without executing the second
C28_Witness ==
    /\ tpc = "done"
    /\ Len(timedSteps) = 2
    /\ Len(tlog) = 1
    /\ tlog[1].step.Action = "frobnicate"
    /\ terr.kind = "unknown action"
    /\ timedSteps[2].Action = "click"

\* the executed assert_attribute steps
AttributeSteps ==
    { i \in 1..Len(tlog) : tlog[i].step.Action = "assert_attribute" }

\* C29: assert_attribute takes its target apart at '|' into selector and
\* attribute name. It fails with a format error, asking the browser
\* nothing, unless that gives exactly two parts; it fails when the
\* attribute is absent, fails when it is there with another value than
\* the expected one, and succeeds only when it is there and equal.
C29_AssertAttribute ==
    \A i \in AttributeSteps :
        LET e == tlog[i]
            bars == { k \in 1..Len(e.step.Target) : e.step.Target[k] = "|" }
        IN  IF Cardinality(bars) # 1
            THEN /\ e.err = Err("invalid assert_attribute format", 0)
                 /\ e.calls = <<>>
            ELSE /\ Len(e.calls) = 1
                 /\ e.calls[1].op = "AttributeValue"
                 /\ e.calls[1].selector \o <<"|">> \o e.calls[1].attribute
                       = e.step.Target
                 /\ e.reply.err = Nil /\ ~e.reply.ok =>
                       e.err = Err("attribute not found", 0)
                 /\ e.reply.err = Nil /\ e.reply.ok
                       /\ e.reply.value # e.step.Value =>
                       e.err = Err("expected attribute", 0)
                 /\ e.err = Nil <=>
                       /\ e.reply.err = Nil
                       /\ e.reply.ok
                       /\ e.reply.value = e.step.Value

\* the attribute '' of 's' was looked up for the target 's|' and had the
\* expected value; the target 's||' of the next step was refused
C29_Witness ==
    /\ Len(tlog) = 2
    /\ tlog[1].step.Action = "assert_attribute"
    /\ tlog[1].step.Target = <<"s", "|">>
    /\ tlog[1].err = Nil
    /\ tlog[1].calls[1].selector = <<"s">>
    /\ tlog[2].step.Action = "assert_attribute"
    /\ tlog[2].step.Target = <<"s", "|", "|">>
    /\ tlog[2].err.kind = "invalid assert_attribute format"

\* the lines of the file by what parse takes them for
Ignored(i) ==
    TrimSpace(lines[i]) = <<>> \/ HasPrefix(TrimSpace(lines[i]), <<"#">>)

IsTestLine(i) == HasPrefix(TrimSpace(lines[i]), TestPrefix)

TestLines == { i \in 1..Len(lines) : IsTestLine(i) }

\* the command lines that follow the test line i, up to the next test
\* line
CommandLines(i) ==
    { j \in (i + 1)..Len(lines) :
        /\ ~Ignored(j)
        /\ ~IsTestLine(j)
        /\ \A k \in (i + 1)..j : ~IsTestLine(k) }

\* how many elements of the set of numbers S are at most i
Rank(S, i) == Cardinality({ j \in S : j <= i })

\* ParseString has returned tests and no error
Parsed == ppc = "done" /\ parseErr = Nil

\* C30: ParseString returns the tests in file order, each with its steps
\* in file order: every 'test' line opens one test, every command line
\* after it up to the next 'test' line gives exactly one step of that
\* test, and blank lines and '#' comment lines add nothing.
C30_ParseKeepsOrder ==
    Parsed =>
        /\ Len(parsed) = Cardinality(TestLines)
        /\ \A i \in TestLines :
              LET test == parsed[Rank(TestLines, i)]
              IN  /\ test.Name =
                        Trim(TrimPrefix(TrimSpace(lines[i]), TestPrefix),
                             Quotes)
                  /\ Len(test.Steps) = Cardinality(CommandLines(i))
                  /\ \A j \in CommandLines(i) :
                        <<test.Steps[Rank(CommandLines(i), j)]>> =
                            parseLine(TrimSpace(lines[j]), j).step

\* a file of four lines has given the test 'a' with the steps click x
\* and type x 'v w', in that order, a comment between them
C30_Witness ==
    /\ Parsed
    /\ Len(lines) = 4
    /\ Len(parsed) = 1
    /\ parsed[1].Name = <<"a">>
    /\ Ignored(3)
    /\ parsed[1].Steps =
          <<[Action |-> "click", Target |-> <<"x">>, Value |-> <<>>],
            [Action |-> "type", Target |-> <<"x">>,
             Value |-> <<"v", " ", "w">>]>>

C32_EveryStepAdvances ==
    [][\A w \in 1..Len(shotTests) :
          spc[w] = "step" /\ spc'[w] = "capture" =>
              LET step == shotTests[w].Steps[si[w]]
                  name == shotTests[w].Name
              IN  IF step.Action = "screenshot"
                  THEN Count(screenshotCounter', name) =
                           Count(screenshotCounter, name) + 1
                  ELSE Count(snapshotCounter', name) =
                           Count(snapshotCounter, name) + 1]_vars

\* C32: a screenshot or snapshot step without a file name advances the
\* counter of its kind for its test name by exactly one and leaves the
\* counter of the other kind alone; a step with a file name leaves both
\* counters as they are.
C32_AutoStepAdvances ==
    [][\A w \in 1..Len(shotTests) :
          spc[w] = "step" /\ spc'[w] = "capture" =>
              LET step == shotTests[w].Steps[si[w]]
                  name == shotTests[w].Name
              IN  IF step.Target # <<>>
                  THEN UNCHANGED <<screenshotCounter, snapshotCounter>>
                  ELSE IF step.Action = "screenshot"
                  THEN /\ Count(screenshotCounter', name) =
                              Count(screenshotCounter, name) + 1
                       /\ UNCHANGED snapshotCounter
                  ELSE /\ Count(snapshotCounter', name) =
                              Count(snapshotCounter, name) + 1
                       /\ UNCHANGED screenshotCounter]_vars

\* the test 'a' has run `screenshot` and the other test 'a' has run
\* `screenshot "a.png"`: the counter of 'a' is 1
C32_Witness ==
    /\ Len(shotLog) = 2
    /\ Len(shotLog[1]) = 1 /\ Len(shotLog[2]) = 1
    /\ shotLog[1][1].action = "screenshot" /\ shotLog[1][1].target = <<>>
    /\ shotLog[2][1].action = "screenshot"
    /\ shotLog[2][1].target = <<"a">> \o PngExt
    /\ Count(screenshotCounter, <<"a">>) = 1
    /\ Count(snapshotCounter, <<"a">>) = 0

\* --------------------------------------------------- the console error list
\* C33: the console-error list of a test is never accessed by the listener
\* and by runTest at once: every append of the listener and every read of
\* the list for the verdict and for the copy of the result is made with
\* the mutex held, so that two accesses that can come next in one state
\* from different goroutines hold a mutex in common.
C33_ErrorsUnderMutex ==
    \A t \in 1..Len(tests) :
        /\ \A a \in Accesses(t) : "r.mu" \in a.locks
        /\ \A a, b \in Accesses(t) :
              a.by # b.by => a.locks \cap b.locks # {}

\* ------------------------------------------------------------ the worker pool
\* C34: at every moment at most numWorkers = 4 tests are in flight (taken
\* from the queue, result not yet pushed) and at most as many sessions are
\* open, and every worker that has not left its loop either waits at the
\* queue or runs exactly one test: a worker takes the next test only after
\* it has pushed the result of the one before.
C34_AtMostFourInFlight ==
    LET inFlight == { t \in 1..Len(tests) :
                        pc[t] \in {"runTest", "init", "steps", "verdict",
                                   "return", "send"} }
    IN  /\ Cardinality(inFlight) <= numWorkers
        /\ Cardinality(sessions) <= numWorkers
        /\ idle + Cardinality(inFlight) = wg
        /\ \A t \in 1..Len(tests) : ctx[t] \in sessions => t \in inFlight

\* four tests are in flight, no worker waits, and a fifth test is still
\* in the queue
C34_Witness ==
    /\ Len(tests) = numWorkers + 1
    /\ Cardinality({ t \in 1..Len(tests) :
           pc[t] \in {"runTest", "init", "steps", "verdict", "return",
                      "send"} }) = numWorkers
    /\ idle = 0
    /\ Len(testChan) = 1
    /\ Cardinality(sessions) > 1

\* C35: r.results is written only by the goroutine that called Run: it is
\* appended to only in the loop over the result channel, one received
\* result at a time, and no step of a worker changes it, so that no two
\* appends are made at once.
C35_SingleCollector ==
    [][results' # results =>
          /\ pcMain = "collect"
          /\ resultChan # <<>>
          /\ results' = Append(results, Head(resultChan))
          /\ resultChan' = Tail(resultChan)
          /\ UNCHANGED <<idle, pc, result>>]_vars

\* the collecting loop has appended two results while a worker is about
\* to push another one
C35_Witness ==
    /\ pcMain = "collect"
    /\ Len(results) = 2
    /\ \E t \in 1..Len(tests) : pc[t] = "send"
    /\ resultChan # <<>>

\* ------------------------------------------------------------ the row bands
\* C36: in the full pass the four row bands partition the rows of the
\* image, every row being in exactly one band, also when the height is no
\* multiple of 4 or is less than 4; and the total that the four goroutines
\* add up under the mutex is, in whatever order they add, the number of
\* differing pixels that one scan of all pixels counts.
C36_BandsPartitionRows ==
    cpc # "none" =>
        LET b == cmpImages.b
            c == cmpImages.c
            band(w) == { y \in 0..(b.h - 1) :
                           StartY(w, b.h) <= y /\ y < EndY(w, b.h) }
            differing(rows) ==
                Cardinality({ p \in (0..(b.w - 1)) \X rows :
                    b.px[p[2] * b.w + p[1] + 1] #
                        c.px[p[2] * b.w + p[1] + 1] })
        IN  /\ \A y \in 0..(b.h - 1) :
                  Cardinality({ w \in 0..(compareWorkers - 1) :
                                  y \in band(w) }) = 1
            /\ differentPixels =
                   differing(UNION { band(w) : w \in bandsDone })
            /\ cpc = "returned" =>
                  /\ differentPixels = differing(0..(b.h - 1))
                  /\ Fraction(differentPixels, b.w * b.h) =
                         compareImages(Png(0, b.w, b.h, b.px),
                                       Png(0, c.w, c.h, c.px)).diff

\* an image of five rows and two columns has been compared: the last band
\* had the two rows left over, and the differing pixels of the first and
\* of the last row were all counted
C36_Witness ==
    /\ cpc = "returned"
    /\ cmpImages.b.h = 5 /\ cmpImages.b.w = 2
    /\ differentPixels = 3
    /\ cmpImages.c.px[1] = 1
    /\ cmpImages.c.px[9] = 1 /\ cmpImages.c.px[10] = 1

\* ------------------------------------------------------------ the threshold
\* C37: a screenshot step whose baseline exists and was compared fails if
\* and only if the difference computed is strictly greater than the
\* threshold; a difference equal to the threshold is tolerated, and the
\* step then succeeds and writes no file.
C37_StrictThreshold ==
    \A s \in Shots :
        LET e == shotLog[s[1]][s[2]]
            cmp == compareImages(e.baseline, e.data)
            threshold == shotConfig.ScreenshotThreshold
            greater == cmp.diff[1] * threshold[2] > threshold[1] * cmp.diff[2]
        IN  e.action = "screenshot" /\ e.compared /\ cmp.err = Nil =>
                /\ e.err # Nil <=> greater
                /\ ~greater => e.written = {}
                /\ greater => e.path \notin e.written

\* with threshold 1/2 a screenshot step has compared a capture of two
\* pixels with a baseline that differs in one of them: the difference is
\* 1/2, the step has succeeded and has written nothing
C37_Witness ==
    \E s \in Shots :
        LET e == shotLog[s[1]][s[2]]
        IN  /\ e.action = "screenshot"
            /\ e.compared
            /\ shotConfig.ScreenshotThreshold = Fraction(1, 2)
            /\ compareImages(e.baseline, e.data).diff = Fraction(1, 2)
            /\ e.err = Nil
            /\ e.written = {}

\* --------------------------------------------------- presence and absence
\* C38: assert_element_not_exists fails if and only if the lookup of the
\* element returns without error and finds at least one node; when the
\* lookup itself returns an error (protocol failure, deadline of the
\* session's context) the step succeeds, whereas assert_element_exists
\* fails on the same answer.
C38_AbsenceToleratesLookupError ==
    \A i \in 1..Len(tlog) :
        LET e == tlog[i]
        IN  /\ e.step.Action = "assert_element_not_exists" =>
                  /\ e.err # Nil <=> e.reply.err = Nil /\ e.reply.nodes >= 1
                  /\ e.reply.err # Nil => e.err = Nil
            /\ e.step.Action = "assert_element_exists" =>
                  /\ e.err = Nil <=> e.reply.err = Nil /\ e.reply.nodes >= 1
                  /\ e.reply.err # Nil => e.err # Nil

\* the lookup failed twice with the deadline of the context:
\* assert_element_not_exists passed, then assert_element_exists failed
C38_Witness ==
    /\ Len(tlog) = 2
    /\ tlog[1].step.Action = "assert_element_not_exists"
    /\ tlog[1].reply.err = DeadlineExceeded
    /\ tlog[1].err = Nil
    /\ tlog[2].step.Action = "assert_element_exists"
    /\ tlog[2].reply.err = DeadlineExceeded
    /\ tlog[2].err # Nil

C40_TargetRoundTrips ==
    \A i \in 1..Len(tlog) :
       tlog[i].step.Action = "assert_attribute" =>
          LET parts == Fields(lines[Len(lines)])
          IN  tlog[i].calls =
                 <<[op |-> "AttributeValue",
                    selector |-> Trim(parts[2], Quotes),
                    attribute |-> Trim(parts[3], Quotes)]>>

====
